---------------------------- MODULE Spec2Model ----------------------------
(***************************************************************************)
(* Model of ansys.optislang.core.tcp_osl_server:                           *)
(*   - TcpClient (the transport): connect, disconnect, send_msg,           *)
(*     send_file, receive_msg, receive_file and their helpers;             *)
(*   - _get_current_timeout;                                               *)
(*   - TcpOslServer._send_command and __check_command_response;            *)
(*   - TcpOslListener.__listen and the start / stop / stop_gently waits;   *)
(*   - the construction of a TcpOslListener and __create_listener;         *)
(*   - TcpOslServer.new, open, save and save_as.                           *)
(*                                                                         *)
(* Time is a discrete clock `now`.  It is observed at every time.time()    *)
(* call, where it may have advanced by one unit since the last event, and  *)
(* it jumps to the deadline when a blocking socket call times out.         *)
(***************************************************************************)
EXTENDS Integers, Sequences, FiniteSets, TLC

(***************************************************************************)
(* Bounds of the model.                                                    *)
(***************************************************************************)
MaxTime == 4
MaxCalls == 2
MaxCmds == 1
MaxCands == 2
MaxTimeout == 2
\* The size in bytes of the segments in which a stream arrives.
Segment == 4
\* Calls of start, stop and stop_gently, and notifications the server sends.
MaxWaitCalls == 2
MaxNotes == 2
\* The ports of the host a listener may be given.
MaxPort == 3

(***************************************************************************)
(* Program constants, scaled where the scale does not matter.              *)
(***************************************************************************)
\* TcpClient._RESPONSE_SIZE_BYTES: one header field is an unsigned 64 bit
\* big-endian integer.
RESPONSE_SIZE_BYTES == 8
\* The timeout of select.select in _recv_response_length, in clock units.
SELECT_TIMEOUT == 1
\* TcpClient._BUFFER_SIZE
BUFFER_SIZE == 4096

VARIABLES
  \* ---- environment and transport (TcpClient) ----
  now,          \* the clock
  sock,         \* TcpClient.__socket: 0 is None, otherwise a socket id
  opened,       \* socket ids created and not closed
  connected,    \* socket ids whose connection is established
  sockTimeout,  \* the value of the last settimeout on `sock`
  wire,         \* bytes the peer has sent that have not arrived yet
  inbuf,        \* bytes that arrived at `sock` and were not read yet
  peerClosed,   \* the peer closed its end after the bytes on `wire`
  replied,      \* the peer has put its reply on the wire
  \* ---- control ----
  top,          \* the public operation in progress
  pc,           \* the position inside it
  exc,          \* the outcome of the last transport operation
  result,       \* the outcome of the last public operation
  calls,        \* number of public operations started
  timeout,      \* the timeout argument of the transport method in progress
  \* ---- locals of connect ----
  cStart, ci, ncand, accN,
  connectTimedOut, \* record: an attempt of this connect ran into its timeout
  \* ---- locals of receive_msg / receive_file and helpers ----
  rStart, lenStart, len1, msgLen, remainT, bStart, received,
  file, settimeouts, pairs, mismatch,
  \* ---- TcpOslServer._send_command ----
  srvTimeout,   \* TcpOslServer.__timeout
  hostSet,      \* __host and __port are both set
  cmdStart, response, cause, errmsg, sent, timeoutAlias

envVars  == <<now, sock, opened, connected, sockTimeout, wire, inbuf,
              peerClosed, replied>>
ctlVars  == <<top, pc, exc, result, calls, timeout>>
connVars == <<cStart, ci, ncand, accN, connectTimedOut>>
recvVars == <<rStart, lenStart, len1, msgLen, remainT, bStart,
              received, file, settimeouts, pairs, mismatch>>
cmdVars  == <<srvTimeout, hostSet, cmdStart, response, cause, errmsg, sent,
              timeoutAlias>>
VARIABLES
  \* ---- TcpOslServer.__listeners and the role listeners ----
  lExists,      \* per role: the listener is in __listeners
  callbacks,    \* per role: TcpOslListener.__callbacks, as call numbers
  run,          \* per role: TcpOslListener.__run_listening_thread
  thr,          \* per role and call: the listening thread that call started
  pending,      \* per role: connections waiting at the listener socket
  queue,        \* per call and role: the Queue that call waits on
  \* ---- the call of start, stop or stop_gently in progress ----
  wpc, wop, wfs, wff, status, okStarted, wcall, wres,
  \* ---- records ----
  notes,        \* notifications the server has sent
  startCmds,    \* trigger commands this call has sent
  seen          \* per role: the last notification handed to the callbacks
                \* since this call attached its own

VARIABLES
  \* ---- the construction of a TcpOslListener ----
  portRange,      \* the argument port_range, a pair
  occupied,       \* the ports of the host that are in use
  port,           \* the loop variable of __init_listener_socket
  listenerSocket, \* __listener_socket: 0 is None, otherwise the port bound
  lpc,            \* the position in the construction
  lres            \* the outcome of __create_listener

bindVars == <<portRange, occupied, port, listenerSocket, lpc, lres>>

VARIABLES
  \* ---- the client's process, refresh thread and registry (shutdown) ----
  procHandle,   \* TcpOslServer.__osl_process is not None
  procState,    \* the optiSLang process: "none" (not launched yet),
                \* "running", "exited", "terminated"
  shutdownOnFinished, \* __osl_process.shutdown_on_finished
  refreshFlag,  \* the Event __refresh_listeners is set
  refreshThr,   \* __listeners_registration_thread: "none", "waiting" (in
                \* the loop, not sending), "sending" (in the for loop of a
                \* refresh round), "ended"
  reg,          \* __listeners: per key a record of the listener's state
  cmdLog,       \* the commands handed to _send_command since the call of
                \* shutdown in progress began, with their outcomes
  spc,          \* the position in shutdown or set_timeout
  force,        \* the argument force of shutdown
  todo,         \* what the for loop of __finish_all_threads has left
  held,         \* the keys whose listener held a UID when shutdown began
  sres          \* the outcome of the last call of shutdown or set_timeout

clientVars == <<procHandle, procState, shutdownOnFinished, refreshFlag,
                refreshThr, reg, cmdLog, spc, force, todo, held, sres>>

VARIABLES
  \* ---- one TcpOslListener, its accept loop and its callers ----
  lsOpen,       \* the listener socket is open (not closed by dispose)
  lsRun,        \* __run_listening_thread
  lsRef,        \* __thread is not None
  lsPc,         \* the position of the thread running __listen
  lsTimeout,    \* the local timeout of __listen
  lsExpired,    \* the budget of __listen has elapsed
  lsConns,      \* the connections pending at the listener socket
  lsCur,        \* the connection __listen has accepted, or NoConn
  lsCbs,        \* __callbacks
  lsLog,        \* what happened: reads, acknowledgements, calls, closes
  kpc,          \* the position of the caller in cleanup_notifications
  kCur          \* the connection cleanup_notifications has accepted

loopVars == <<lsOpen, lsRun, lsRef, lsPc, lsTimeout, lsExpired, lsConns,
              lsCur, lsCbs, lsLog, kpc, kCur>>

VARIABLES
  \* ---- the refresh thread, __refresh_listeners_registration ----
  counter,      \* its local counter, in units of check_for_refresh
  rfpc,         \* its position: "none", "test" (the while condition),
                \* "iter" (the for statement asks for the next listener),
                \* "send", "sleep", "ended" (the loop was left), "died"
                \* (an exception ended the thread)
  rfIter,       \* the iterator of self.__listeners.values()
  rfCur,        \* the key of the listener of the for loop
  rfSent,       \* the refresh commands of the pass in progress or of the
                \* last one, with their outcomes
  rfPasses,     \* the passes begun
  rfAge         \* the time since the main listener was registered or
                \* last refreshed, in units of check_for_refresh

refreshVars == <<counter, rfpc, rfIter, rfCur, rfSent, rfPasses, rfAge>>

VARIABLES
  \* ---- _start_local, the calling thread ----
  slpc,         \* its position in _start_local
  slPort,       \* self.__port, 0 for None
  slExc,        \* the exception the try block raised, or "none"
  slRes         \* how _start_local ended: "none", "ok" or the exception

localVars == <<slpc, slPort, slExc, slRes>>

waitVars == <<lExists, callbacks, run, thr, pending, queue, wpc, wop, wfs,
              wff, status, okStarted, wcall, wres, notes, startCmds, seen,
              bindVars, clientVars, loopVars, refreshVars, localVars>>
lisVars == <<lExists, callbacks, run, thr, pending, queue>>
callVars == <<wpc, wop, wfs, wff, status, okStarted, wcall, wres>>

VARIABLES
  \* ---- what is sent ----
  stream,       \* all the bytes the peer has written on the connection
  out,          \* the bytes the transport has transmitted in this call
  sendFile,     \* the content of the file send_file is called with
  filePos       \* the read position in that file

sendVars == <<stream, out, sendFile, filePos>>

\* What start, stop and stop_gently and the listeners leave alone.
xferVars == <<sock, opened, connected, sockTimeout, wire, inbuf, peerClosed,
              replied, ctlVars, connVars, recvVars, srvTimeout, hostSet,
              cmdStart, response, cause, errmsg, sent, sendVars, bindVars,
              clientVars, loopVars, refreshVars, localVars>>

\* What the transport leaves alone where it does not send.
restVars == <<waitVars, sendVars>>

\* No listener is under construction.
BindIdle ==
  /\ portRange = <<1, 1>>
  /\ occupied = {}
  /\ port = 0
  /\ listenerSocket = 0
  /\ lpc = "idle"
  /\ lres = "none"

vars == <<envVars, ctlVars, connVars, recvVars, cmdVars, waitVars, sendVars>>

(***************************************************************************)
(* Timeout values: None, an int or a float (Python distinguishes them in   *)
(* isinstance(timeout, float)).                                            *)
(***************************************************************************)
None == [k |-> "none", v |-> 0]
IntT(n) == [k |-> "int", v |-> n]
FloatT(n) == [k |-> "float", v |-> n]
IsNone(t) == t.k = "none"

\* The values time.time() may return now: the clock may have advanced.
ClockReads == {t \in {now, now + 1} : t <= MaxTime}

\* A resolver that takes the budget as spent only once more than the budget
\* has elapsed.
get_current_timeout_late(initial_timeout, start_time, t) ==
  IF ~IsNone(initial_timeout) /\ initial_timeout.v # 0
  THEN LET remaining_timeout == initial_timeout.v - (t - start_time)
       IN  IF remaining_timeout < 0
           THEN [raise |-> TRUE, val |-> None]
           ELSE [raise |-> FALSE, val |-> FloatT(remaining_timeout)]
  ELSE [raise |-> FALSE, val |-> initial_timeout]

\* _get_current_timeout(initial_timeout, start_time), time.time() being t.
get_current_timeout(initial_timeout, start_time, t) ==
  IF ~IsNone(initial_timeout) /\ initial_timeout.v # 0
  THEN LET remaining_timeout == initial_timeout.v - (t - start_time)
       IN  IF remaining_timeout <= 0
           THEN [raise |-> TRUE, val |-> None]
           ELSE [raise |-> FALSE, val |-> FloatT(remaining_timeout)]
  ELSE [raise |-> FALSE, val |-> initial_timeout]

(***************************************************************************)
(* Exceptions.  socket.timeout is a subclass of OSError; it is the builtin *)
(* TimeoutError only from Python 3.10 on.  Which interpreter runs the      *)
(* program is fixed but unknown: timeoutAlias is "unknown" until the first *)
(* except clause that depends on it.                                       *)
(***************************************************************************)
IsTimeoutError(e, alias) ==
  \/ e = "TimeoutError"
  \/ e = "socket.timeout" /\ alias

\* TcpClient.is_connected
is_connected == sock # 0

\* The identity of a socket object that socket.socket() creates.
NewId == CHOOSE i \in 1..(Cardinality(opened) + 1) : i \notin opened


(***************************************************************************)
(* Control: a transport operation is either called directly (top is the    *)
(* operation itself) or from _send_command, which continues after it.      *)
(***************************************************************************)
\* The position at which _send_command goes on once the transport operation
\* op has ended with e ("ok": returned).
AfterInSendCommand(op, e) ==
  IF e # "ok" THEN "s_except"
  ELSE CASE op = "connect"  -> "s_send"
         [] op = "send_msg" -> "s_receive"
         [] OTHER           -> "s_finally"

Leave(op, e) ==
  /\ exc' = e
  /\ pc' = IF top = "send_command" THEN AfterInSendCommand(op, e) ELSE "idle"
  /\ result' = IF top = "send_command" THEN result ELSE e
  /\ UNCHANGED <<top, calls, timeout>>

Goto(l) ==
  /\ pc' = l
  /\ UNCHANGED <<top, exc, result, calls, timeout>>

(***************************************************************************)
(* TcpClient.connect                                                       *)
(***************************************************************************)
\* if self.is_connected: raise ConnectionEstablishedError
\* start_time = time.time(); getaddrinfo(...) yields ncand candidates
connect_enter ==
  /\ pc = "c_enter"
  /\ IF is_connected
     THEN /\ Leave("connect", "ConnectionEstablishedError")
          /\ UNCHANGED <<envVars, connVars>>
     ELSE /\ cStart' = now
          /\ ncand' \in 1..MaxCands
          /\ ci' = 1
          /\ accN' = 0
          /\ connectTimedOut' = FALSE
          /\ Goto("c_socket")
          /\ UNCHANGED envVars
  /\ UNCHANGED <<recvVars, cmdVars>>
  /\ UNCHANGED restVars

\* The head of the for loop and socket.socket(af, socktype, proto).  A socket
\* left in self.__socket by the previous candidate is overwritten, not closed.
connect_socket ==
  /\ pc = "c_socket"
  /\ IF ci > ncand
     THEN /\ Goto("c_end")
          /\ UNCHANGED <<envVars, connVars, stream>>
     ELSE \/ \* OSError: self.__socket = None; continue
             /\ sock' = 0
             /\ ci' = ci + 1
             /\ Goto("c_socket")
             /\ UNCHANGED <<now, opened, connected, sockTimeout, wire,
                            inbuf, peerClosed, replied, cStart, ncand,
                            accN, connectTimedOut, stream>>
          \/ /\ sock' = NewId
             /\ opened' = opened \cup {NewId}
             /\ sockTimeout' = None
             /\ wire' = <<>>
             /\ inbuf' = <<>>
             /\ peerClosed' = FALSE
             /\ replied' = FALSE
             /\ stream' = <<>>
             /\ Goto("c_settimeout")
             /\ UNCHANGED <<now, connected, connVars>>
  /\ UNCHANGED <<recvVars, cmdVars>>
  /\ UNCHANGED <<waitVars, out, sendFile, filePos>>

\* self.__socket.settimeout(_get_current_timeout(timeout, start_time)),
\* outside the try blocks: a TimeoutError leaves connect with the socket set.
connect_settimeout ==
  /\ pc = "c_settimeout"
  /\ \E t \in ClockReads :
       LET g == get_current_timeout(timeout, cStart, t) IN
       /\ now' = t
       /\ IF g.raise
          THEN /\ Leave("connect", "TimeoutError")
               /\ UNCHANGED sockTimeout
          ELSE /\ sockTimeout' = g.val
               /\ Goto("c_connect")
  /\ UNCHANGED <<sock, opened, connected, wire, inbuf, peerClosed,
                 replied, connVars, recvVars, cmdVars>>
  /\ UNCHANGED restVars

\* self.__socket.connect(sa) succeeded: the loop goes on with the next
\* candidate (there is no break).
connect_accepted ==
  /\ pc = "c_connect"
  /\ IsNone(sockTimeout) \/ sockTimeout.v > 0
  /\ connected' = connected \cup {sock}
  /\ accN' = accN + 1
  /\ ci' = ci + 1
  /\ Goto("c_socket")
  /\ UNCHANGED <<now, sock, opened, sockTimeout, wire, inbuf,
                 peerClosed, replied, cStart, ncand, connectTimedOut,
                 recvVars, cmdVars>>
  /\ UNCHANGED restVars

\* self.__socket.connect(sa) raised an OSError: the candidate refused, the
\* attempt timed out (socket.timeout, after the socket's timeout), or the
\* socket is non-blocking (BlockingIOError).  close(); None; continue.
connect_failed ==
  /\ pc = "c_connect"
  /\ \/ /\ now' = now                                   \* refused
        /\ connectTimedOut' = connectTimedOut
     \/ /\ ~IsNone(sockTimeout) /\ sockTimeout.v > 0    \* timed out
        /\ now + sockTimeout.v <= MaxTime
        /\ now' = now + sockTimeout.v
        /\ connectTimedOut' = TRUE
  /\ opened' = opened \ {sock}
  /\ sock' = 0
  /\ ci' = ci + 1
  /\ Goto("c_socket")
  /\ UNCHANGED <<connected, sockTimeout, wire, inbuf, peerClosed,
                 replied, cStart, ncand, accN, recvVars, cmdVars>>
  /\ UNCHANGED restVars

\* if self.__socket is None: raise ConnectionRefusedError
connect_end ==
  /\ pc = "c_end"
  /\ Leave("connect", IF sock = 0 THEN "ConnectionRefusedError" ELSE "ok")
  /\ cStart' = 0 /\ ci' = 0 /\ ncand' = 0
  /\ UNCHANGED <<envVars, accN, connectTimedOut, recvVars, cmdVars>>
  /\ UNCHANGED restVars

(***************************************************************************)
(* TcpClient.disconnect                                                    *)
(***************************************************************************)
Closed(s) ==
  /\ opened' = opened \ {s}
  /\ connected' = connected \ {s}

\* if self.is_connected: self.__socket.close(); self.__socket = None
\* What the peer sent on the closed connection is gone with it.
CloseSocket ==
  IF is_connected
  THEN /\ Closed(sock)
       /\ sock' = 0
       /\ sockTimeout' = None
       /\ wire' = <<>>
       /\ inbuf' = <<>>
       /\ peerClosed' = FALSE
       /\ replied' = FALSE
       /\ stream' = <<>>
  ELSE UNCHANGED <<sock, opened, connected, sockTimeout, wire, inbuf,
                   peerClosed, replied, stream>>

disconnect ==
  /\ pc = "d_enter"
  /\ CloseSocket
  /\ Leave("disconnect", "ok")
  /\ UNCHANGED <<now, connVars, recvVars, cmdVars>>
  /\ UNCHANGED <<waitVars, out, sendFile, filePos>>

\* A socket object no variable refers to any more is closed when the
\* interpreter finalizes it: at once (reference counting) or at some later
\* time (a tracing collector), or never before the program ends.
finalize_socket ==
  /\ \E s \in opened \ {sock} : Closed(s)
  /\ UNCHANGED <<now, sock, sockTimeout, wire, inbuf, peerClosed,
                 replied, ctlVars, connVars, recvVars, cmdVars>>
  /\ UNCHANGED restVars


(***************************************************************************)
(* Bytes and the frame header.                                             *)
(***************************************************************************)
Min(a, b) == IF a < b THEN a ELSE b
Take(q, n) == SubSeq(q, 1, Min(n, Len(q)))
Drop(q, n) == SubSeq(q, Min(n, Len(q)) + 1, Len(q))

\* The big-endian value of the bytes b.
RECURSIVE BigEndian(_)
BigEndian(b) ==
  IF b = <<>> THEN 0
  ELSE 256 * BigEndian(SubSeq(b, 1, Len(b) - 1)) + b[Len(b)]

\* Every length of 2^24 and more: far beyond what the peer of the model
\* ever sends.
HugeLen == 256 * 256 * 256

\* struct.unpack("!Q", b)[0] for a b of RESPONSE_SIZE_BYTES bytes.  Two
\* fields are equal as numbers exactly if they are equal as bytes, which is
\* how the model compares them; the value itself is kept up to HugeLen.
unpack_Q(b) ==
  IF \E i \in 1..(Len(b) - 3) : b[i] # 0 THEN HugeLen
  ELSE BigEndian(SubSeq(b, Len(b) - 2, Len(b)))

\* The byte of n at position k, counted from the least significant one.
RECURSIVE ByteAt(_, _)
ByteAt(n, k) == IF k = 0 THEN n % 256 ELSE ByteAt(n \div 256, k - 1)

\* struct.pack("!Q", n)
pack_Q(n) == [i \in 1..RESPONSE_SIZE_BYTES |->
                ByteAt(n, RESPONSE_SIZE_BYTES - i)]

\* struct.pack("!QQ", a, b) + data
Frame(a, b, data) == pack_Q(a) \o pack_Q(b) \o data

\* What send_msg transmits for the message data: header + data with
\* header = struct.pack("!QQ", data_len, data_len).
send_msg_data(data) == Frame(Len(data), Len(data), data)

\* The peer's end of file has reached the socket.
AtEof == inbuf = <<>> /\ wire = <<>> /\ peerClosed
\* select.select([socket], [], [], 1) reports the socket readable.
Readable == inbuf # <<>> \/ AtEof

\* The method of the transport that is receiving.
RecvOp == IF top = "receive_file" THEN "receive_file" ELSE "receive_msg"

(***************************************************************************)
(* The peer.  What it sends: well-formed frames, a frame whose two length  *)
(* fields differ (alone, or followed by a well-formed frame), a frame cut  *)
(* short, or nothing.  Payload byte 1 stands for a JSON text, 2 for bytes  *)
(* that are no JSON text.                                                  *)
(***************************************************************************)
Streams ==
  { <<>>,
    Frame(1, 1, <<1>>),
    Frame(1, 1, <<2>>),
    Frame(2, 2, <<1, 2>>),
    Frame(0, 0, <<>>),
    Frame(1, 2, <<1>>),
    Frame(1, 2, <<>>) \o Frame(1, 1, <<1>>),
    Frame(2, 2, <<1>>) }

\* The peer sends once per connection; the command server sends its reply
\* to a command it has received.
peer_send ==
  /\ sock \in connected
  /\ ~replied
  /\ top = "send_command" => sent > 0
  /\ replied' = TRUE
  /\ wire' \in Streams
  /\ stream' = wire'
  /\ peerClosed' \in BOOLEAN
  /\ UNCHANGED <<now, sock, opened, connected, sockTimeout, inbuf,
                 ctlVars, connVars, recvVars, cmdVars>>
  /\ UNCHANGED <<waitVars, out, sendFile, filePos>>

\* The next segment arrives: Segment bytes, or all that is on the wire.
deliver ==
  /\ wire # <<>>
  /\ \E k \in {Segment, Len(wire)} :
       /\ inbuf' = inbuf \o Take(wire, k)
       /\ wire' = Drop(wire, k)
  /\ UNCHANGED <<now, sock, opened, connected, sockTimeout,
                 peerClosed, replied, ctlVars, connVars, recvVars, cmdVars>>
  /\ UNCHANGED restVars

(***************************************************************************)
(* TcpClient.send_msg                                                      *)
(***************************************************************************)
send_msg ==
  /\ pc = "m_enter"
  /\ IF ~is_connected
     THEN /\ Leave("send_msg", "ConnectionNotEstablishedError")
          /\ UNCHANGED <<now, sockTimeout, sent>>
     ELSE IF timeout.v < 0
     THEN \* socket.settimeout: "Timeout value out of range"
          /\ Leave("send_msg", "ValueError")
          /\ UNCHANGED <<now, sockTimeout, sent>>
     ELSE /\ sockTimeout' = timeout
          /\ \/ /\ sock \in connected
                /\ Leave("send_msg", "ok")          \* sendall returned
                /\ sent' = sent + 1
                /\ now' = now
             \/ /\ Leave("send_msg", "OSError")     \* e.g. connection reset
                /\ UNCHANGED <<now, sent>>
             \/ /\ sock \in connected
                /\ ~IsNone(timeout) /\ timeout.v > 0
                /\ now + timeout.v <= MaxTime
                /\ now' = now + timeout.v
                /\ Leave("send_msg", "socket.timeout")
                /\ UNCHANGED sent
  /\ UNCHANGED <<sock, opened, connected, wire, inbuf, peerClosed,
                 replied, connVars, recvVars, srvTimeout, hostSet, cmdStart,
                 response, cause, errmsg, timeoutAlias>>
  /\ UNCHANGED restVars

(***************************************************************************)
(* TcpClient.send_file                                                     *)
(***************************************************************************)
\* A file of n bytes; the byte at position i is i modulo 256.
FileOf(n) == [i \in 1..n |-> i % 256]
\* What os.path.isfile(file_path) is false for.
NoFile == <<-1>>
\* The files send_file is called with: one byte, exactly one buffer, several
\* buffers and a remainder, or no file at all.
SendFiles == {FileOf(1), FileOf(BUFFER_SIZE), FileOf(2 * BUFFER_SIZE + 1),
              NoFile}

\* The numbers of bytes socket.send(load) may report as sent: all of load,
\* or a part of it when the send buffer of the socket is short of space.
SendCounts(load) == {Len(load)} \cup {n \in {Len(load) \div 2} : n > 0}

\* The connection check, os.path.isfile, the header, settimeout(timeout),
\* sendall(header).
send_file_enter ==
  /\ pc = "sf_enter"
  /\ IF ~is_connected
     THEN /\ Leave("send_file", "ConnectionNotEstablishedError")
          /\ UNCHANGED <<now, sockTimeout, out>>
     ELSE IF sendFile = NoFile
     THEN /\ Leave("send_file", "FileNotFoundError")
          /\ UNCHANGED <<now, sockTimeout, out>>
     ELSE IF timeout.v < 0
     THEN /\ Leave("send_file", "ValueError")
          /\ UNCHANGED <<now, sockTimeout, out>>
     ELSE /\ sockTimeout' = timeout
          /\ \/ /\ sock \in connected
                /\ Goto("sf_loop")                      \* sendall returned
                /\ out' = pack_Q(Len(sendFile)) \o pack_Q(Len(sendFile))
                /\ now' = now
             \/ /\ Leave("send_file", "OSError")
                /\ UNCHANGED <<now, out>>
             \/ /\ sock \in connected
                /\ ~IsNone(timeout) /\ timeout.v > 0
                /\ now + timeout.v <= MaxTime
                /\ now' = now + timeout.v
                /\ Leave("send_file", "socket.timeout")
                /\ UNCHANGED out
  /\ UNCHANGED <<sock, opened, connected, wire, inbuf, peerClosed,
                 replied, connVars, recvVars, cmdVars, waitVars, stream,
                 sendFile, filePos>>

\* load = file.read(_BUFFER_SIZE); while load: self.__socket.send(load); ...
\* The value send returns is not looked at.
send_file_loop ==
  /\ pc = "sf_loop"
  /\ LET load == SubSeq(sendFile, filePos + 1,
                        Min(filePos + BUFFER_SIZE, Len(sendFile)))
     IN  IF load = <<>>
         THEN /\ Leave("send_file", "ok")
              /\ UNCHANGED <<now, out, filePos>>
         ELSE \/ \E n \in SendCounts(load) :
                   /\ out' = out \o Take(load, n)
                   /\ filePos' = filePos + Len(load)
                   /\ Goto("sf_loop")
                   /\ now' = now
              \/ /\ Leave("send_file", "OSError")
                 /\ UNCHANGED <<now, out, filePos>>
              \/ /\ ~IsNone(timeout) /\ timeout.v > 0
                 /\ now + timeout.v <= MaxTime
                 /\ now' = now + timeout.v
                 /\ Leave("send_file", "socket.timeout")
                 /\ UNCHANGED <<out, filePos>>
  /\ UNCHANGED <<sock, opened, connected, sockTimeout, wire, inbuf,
                 peerClosed, replied, connVars, recvVars, cmdVars, waitVars,
                 stream, sendFile>>

(***************************************************************************)
(* TcpClient.receive_msg and TcpClient.receive_file, up to the call of     *)
(* _recv_response_length                                                   *)
(***************************************************************************)
receive_msg ==
  /\ pc = "r_enter"
  /\ IF ~is_connected
     THEN /\ Leave("receive_msg", "ConnectionNotEstablishedError")
          /\ UNCHANGED rStart
     ELSE IF timeout.k = "float" /\ timeout.v <= 0
     THEN /\ Leave("receive_msg", "ValueError")
          /\ UNCHANGED rStart
     ELSE /\ rStart' = now
          /\ Goto("l_enter")
  /\ UNCHANGED <<envVars, connVars, lenStart, len1, msgLen, remainT, bStart,
                 received, file, settimeouts, pairs, mismatch, cmdVars>>
  /\ UNCHANGED restVars

receive_file ==
  /\ pc = "f_enter"
  /\ IF ~is_connected
     THEN /\ Leave("receive_file", "ConnectionNotEstablishedError")
          /\ UNCHANGED rStart
     ELSE /\ rStart' = now
          /\ Goto("l_enter")
  /\ UNCHANGED <<envVars, connVars, lenStart, len1, msgLen, remainT, bStart,
                 received, file, settimeouts, pairs, mismatch, cmdVars>>
  /\ UNCHANGED restVars

(***************************************************************************)
(* TcpClient._recv_response_length                                         *)
(***************************************************************************)
\* the timeout check, start_time = time.time(), settimeout(timeout)
recv_response_length_enter ==
  /\ pc = "l_enter"
  /\ IF (timeout.k = "float" /\ timeout.v <= 0) \/ timeout.v < 0
     THEN \* ValueError of the check, or of settimeout for a negative int
          /\ Leave(RecvOp, "ValueError")
          /\ UNCHANGED <<lenStart, sockTimeout, settimeouts>>
     ELSE /\ lenStart' = now
          /\ sockTimeout' = timeout
          /\ settimeouts' = settimeouts + 1
          /\ Goto("l_select")
  /\ UNCHANGED <<now, sock, opened, connected, wire, inbuf,
                 peerClosed, replied, connVars, rStart, len1, msgLen, remainT,
                 bStart, received, file, pairs, mismatch, cmdVars>>
  /\ UNCHANGED restVars

\* select.select([self.__socket], [], [], 1)
recv_response_length_select ==
  /\ pc = "l_select"
  /\ IF Readable
     THEN /\ Goto("l_recv1")
          /\ now' = now
     ELSE /\ now + SELECT_TIMEOUT <= MaxTime
          /\ now' = now + SELECT_TIMEOUT
          /\ Goto("l_check")
  /\ UNCHANGED <<sock, opened, connected, sockTimeout, wire, inbuf,
                 peerClosed, replied, connVars, recvVars, cmdVars>>
  /\ UNCHANGED restVars

\* response_len_1 = struct.unpack("!Q", self.__socket.recv(8))[0]
\* recv returns what has arrived, at most 8 bytes (b"" at end of file);
\* struct.error for fewer than 8 bytes is caught by `except Exception`.
recv_response_length_first ==
  /\ pc = "l_recv1"
  /\ Readable
  /\ LET data == Take(inbuf, RESPONSE_SIZE_BYTES) IN
     /\ inbuf' = Drop(inbuf, RESPONSE_SIZE_BYTES)
     /\ IF Len(data) = RESPONSE_SIZE_BYTES
        THEN /\ len1' = data
             /\ Goto("l_recv2")
        ELSE /\ UNCHANGED len1
             /\ Goto("l_check")
  /\ UNCHANGED <<now, sock, opened, connected, sockTimeout, wire,
                 peerClosed, replied, connVars, rStart, lenStart, msgLen,
                 remainT, bStart, received, file, settimeouts, pairs,
                 mismatch, cmdVars>>
  /\ UNCHANGED restVars

\* What the except clause of the loop does with ResponseFormatError("The
\* message size values do not match."): as with every Exception, it logs it
\* and the loop goes on to the elapsed-time check.
MismatchSwallowed == Goto("l_check")

\* response_len_2 = struct.unpack("!Q", self.__socket.recv(8))[0];
\* the comparison; response_len = response_len_1; break; return
recv_response_length_second ==
  /\ pc = "l_recv2"
  /\ \/ /\ inbuf # <<>>
        /\ LET data == Take(inbuf, RESPONSE_SIZE_BYTES) IN
           /\ inbuf' = Drop(inbuf, RESPONSE_SIZE_BYTES)
           /\ IF Len(data) # RESPONSE_SIZE_BYTES
              THEN /\ Goto("l_check")                  \* struct.error
                   /\ UNCHANGED <<msgLen, pairs, mismatch>>
              ELSE /\ pairs' = pairs + 1
                   /\ IF len1 # data
                      THEN /\ mismatch' = TRUE
                           /\ MismatchSwallowed
                           /\ UNCHANGED msgLen
                      ELSE /\ msgLen' = unpack_Q(len1)
                           /\ Goto("r_len")
                           /\ UNCHANGED mismatch
        /\ now' = now
     \/ /\ AtEof                                       \* b"": struct.error
        /\ Goto("l_check")
        /\ UNCHANGED <<now, inbuf, msgLen, pairs, mismatch>>
     \/ /\ inbuf = <<>> /\ ~AtEof                      \* recv blocks
        /\ ~IsNone(sockTimeout)
        /\ now + sockTimeout.v <= MaxTime
        /\ now' = now + sockTimeout.v      \* socket.timeout/BlockingIOError
        /\ Goto("l_check")
        /\ UNCHANGED <<inbuf, msgLen, pairs, mismatch>>
  /\ UNCHANGED <<sock, opened, connected, sockTimeout, wire,
                 peerClosed, replied, connVars, rStart, lenStart, len1,
                 remainT, bStart, received, file, settimeouts, cmdVars>>
  /\ UNCHANGED restVars

\* now = time.time(); elapsed = now - start_time
\* if timeout is not None and elapsed > timeout: raise TimeoutError
recv_response_length_check ==
  /\ pc = "l_check"
  /\ \E t \in ClockReads :
       /\ now' = t
       /\ IF ~IsNone(timeout) /\ t - lenStart > timeout.v
          THEN Leave(RecvOp, "TimeoutError")
          ELSE Goto("l_select")
  /\ UNCHANGED <<sock, opened, connected, sockTimeout, wire, inbuf,
                 peerClosed, replied, connVars, recvVars, cmdVars>>
  /\ UNCHANGED restVars


(***************************************************************************)
(* receive_msg / receive_file after the header                             *)
(***************************************************************************)
\* A receive that goes on to the payload whatever length was declared.
receive_after_length_any ==
  /\ pc = "r_len"
  /\ \E t \in ClockReads :
       LET g == get_current_timeout(timeout, rStart, t) IN
       /\ now' = t
       /\ IF g.raise
          THEN /\ Leave(RecvOp, "TimeoutError")
               /\ UNCHANGED remainT
          ELSE /\ remainT' = g.val
               /\ Goto("b_enter")
  /\ UNCHANGED <<sock, opened, connected, sockTimeout, wire, inbuf,
                 peerClosed, replied, connVars, rStart, lenStart, len1,
                 msgLen, bStart, received, file, settimeouts, pairs,
                 mismatch, cmdVars>>
  /\ UNCHANGED restVars

\* if msg_len == 0: raise EmptyResponseError
\* remain_timeout = _get_current_timeout(timeout, start_time)
receive_after_length ==
  /\ pc = "r_len"
  /\ IF msgLen = 0
     THEN /\ Leave(RecvOp, "EmptyResponseError")
          /\ UNCHANGED <<now, remainT>>
     ELSE \E t \in ClockReads :
            LET g == get_current_timeout(timeout, rStart, t) IN
            /\ now' = t
            /\ IF g.raise
               THEN /\ Leave(RecvOp, "TimeoutError")
                    /\ UNCHANGED remainT
               ELSE /\ remainT' = g.val
                    /\ Goto("b_enter")
  /\ UNCHANGED <<sock, opened, connected, sockTimeout, wire, inbuf,
                 peerClosed, replied, connVars, rStart, lenStart, len1,
                 msgLen, bStart, received, file, settimeouts, pairs,
                 mismatch, cmdVars>>
  /\ UNCHANGED restVars

\* _receive_bytes(count, timeout) and _fetch_file(file_len, file_path,
\* timeout): the argument checks, start_time = time.time(), the empty
\* result (open(file_path, "wb") truncates the file).
receive_bytes_enter ==
  /\ pc = "b_enter"
  /\ IF \/ RecvOp = "receive_msg" /\ msgLen <= 0
        \/ remainT.k = "float" /\ remainT.v <= 0
     THEN /\ Leave(RecvOp, "ValueError")
          /\ UNCHANGED <<bStart, received, file>>
     ELSE /\ bStart' = now
          /\ IF RecvOp = "receive_file"
             THEN file' = <<>> /\ UNCHANGED received
             ELSE received' = <<>> /\ UNCHANGED file
          /\ Goto("b_loop")
  /\ UNCHANGED <<envVars, connVars, rStart, lenStart, len1, msgLen, remainT,
                 settimeouts, pairs, mismatch, cmdVars>>
  /\ UNCHANGED restVars

\* The bytes received so far: `received`, or the file being written.
ReceivedData == IF RecvOp = "receive_file" THEN file ELSE received

\* while received_len < count: ...
\*   self.__socket.settimeout(_get_current_timeout(timeout, start_time))
receive_bytes_loop ==
  /\ pc = "b_loop"
  /\ IF Len(ReceivedData) >= msgLen
     THEN /\ Goto("r_done")
          /\ UNCHANGED <<now, sockTimeout, settimeouts>>
     ELSE \E t \in ClockReads :
            LET g == get_current_timeout(remainT, bStart, t) IN
            /\ now' = t
            /\ IF g.raise
               THEN /\ Leave(RecvOp, "TimeoutError")
                    /\ UNCHANGED <<sockTimeout, settimeouts>>
               ELSE /\ sockTimeout' = g.val
                    /\ settimeouts' = settimeouts + 1
                    /\ Goto("b_recv")
  /\ UNCHANGED <<sock, opened, connected, wire, inbuf, peerClosed,
                 replied, connVars, rStart, lenStart, len1, msgLen, remainT,
                 bStart, received, file, pairs, mismatch, cmdVars>>
  /\ UNCHANGED restVars

\*   chunk = self.__socket.recv(buff); if not chunk: break
\*   received += chunk   (file.write(chunk))
receive_bytes_recv ==
  /\ pc = "b_recv"
  /\ LET remain == msgLen - Len(ReceivedData)
         buff == IF remain > BUFFER_SIZE THEN BUFFER_SIZE ELSE remain
     IN
     \/ /\ inbuf # <<>>
        /\ inbuf' = Drop(inbuf, buff)
        /\ IF RecvOp = "receive_file"
           THEN file' = file \o Take(inbuf, buff) /\ UNCHANGED received
           ELSE received' = received \o Take(inbuf, buff) /\ UNCHANGED file
        /\ Goto("b_loop")
        /\ now' = now
     \/ /\ AtEof
        /\ Goto("r_done")
        /\ UNCHANGED <<now, inbuf, received, file>>
     \/ /\ inbuf = <<>> /\ ~AtEof
        /\ ~IsNone(sockTimeout)
        /\ now + sockTimeout.v <= MaxTime
        /\ now' = now + sockTimeout.v
        /\ Leave(RecvOp, IF sockTimeout.v = 0 THEN "BlockingIOError"
                                              ELSE "socket.timeout")
        /\ UNCHANGED <<inbuf, received, file>>
  /\ UNCHANGED <<sock, opened, connected, sockTimeout, wire,
                 peerClosed, replied, connVars, rStart, lenStart, len1,
                 msgLen, remainT, bStart, settimeouts, pairs, mismatch,
                 cmdVars>>
  /\ UNCHANGED restVars

\* if len(data) != msg_len: raise ResponseFormatError; return force_text(data)
receive_done ==
  /\ pc = "r_done"
  /\ Leave(RecvOp, IF Len(ReceivedData) # msgLen THEN "ResponseFormatError"
                                                 ELSE "ok")
  /\ UNCHANGED <<envVars, connVars, recvVars, cmdVars>>
  /\ UNCHANGED restVars


(***************************************************************************)
(* Decoded responses (json.loads).  A JSON object is a function from its   *)
(* keys to values; a value is a string or a number.                        *)
(***************************************************************************)
StrV(x) == [t |-> "str", s |-> x]
NumV == [t |-> "num", s |-> "1"]
NoKey == [t |-> "nokey", s |-> ""]

EmptyDict == [x \in {} |-> NoKey]
Entry(key, val) == IF val = NoKey THEN EmptyDict ELSE key :> val
Dict(st, m, e) ==
  [kind |-> "dict",
   d |-> Entry("status", st) @@ Entry("message", m) @@ Entry("std_err", e)]
Number == [kind |-> "num"]
List(items) == [kind |-> "list", items |-> items]

StatusValues == {NoKey, StrV("success"), StrV("failure"), StrV("Failure"),
                 StrV("FAILURE"), NumV}
Dicts == {Dict(st, m, e) : st \in StatusValues,
                           m \in {NoKey, StrV("bad param")},
                           e \in {NoKey, StrV("trace")}}
ListItems == {Dict(StrV("success"), NoKey, NoKey),
              Dict(StrV("Failure"), StrV("first"), NoKey),
              Dict(StrV("failure"), StrV("second"), NoKey),
              Dict(StrV("failure"), NoKey, StrV("trace"))}
Lists == {List(q) : q \in {<<>>} \cup {<<a>> : a \in ListItems}
                            \cup {<<a, b>> : a \in ListItems, b \in ListItems}}
\* What json.loads returns for the payloads that are JSON texts.
Docs == Dicts \cup Lists \cup {Number}

\* The payload is a JSON text.
IsJson(payload) == payload = <<1>>

\* str.lower() on the status strings of the model
Lower(x) == IF x \in {"Failure", "FAILURE"} THEN "failure" ELSE x

\* str(response) of a dict that holds at most the key status
StrOfDict(d) ==
  IF "status" \in DOMAIN d THEN "{'status': '" \o d["status"].s \o "'}"
  ELSE "{}"

Returned == [e |-> "ok", msg |-> ""]
Raised(e, m) == [e |-> e, msg |-> m]

\* TcpOslServer.__check_command_response(response): what it raises, or
\* Returned.
check_command_response(r) ==
  IF r.kind # "dict"
  THEN \* "status" in response, for a number: TypeError
       Raised("TypeError", "")
  ELSE LET d == r.d IN
       IF "status" \notin DOMAIN d THEN Returned
       ELSE IF d["status"].t # "str"
       THEN Raised("AttributeError", "")     \* response["status"].lower()
       ELSE IF Lower(d["status"].s) # "failure" THEN Returned
       ELSE IF "std_err" \in DOMAIN d
       THEN IF "message" \in DOMAIN d
            THEN Raised("OslCommandError",
                        d["message"].s \o "; " \o d["std_err"].s)
            ELSE Raised("TypeError", "")     \* None += "; " + std_err
       ELSE IF "message" \in DOMAIN d
       THEN Raised("OslCommandError", d["message"].s)
       ELSE Raised("OslCommandError", "Command error: " \o StrOfDict(d))

\* The loop over a list response: the first element that raises decides.
RECURSIVE check_elements(_)
check_elements(items) ==
  IF items = <<>> THEN Returned
  ELSE LET c == check_command_response(Head(items)) IN
       IF c.e # "ok" THEN c ELSE check_elements(Tail(items))

\* if isinstance(response, list): ... else: ...
check_response(r) ==
  IF r.kind = "list" THEN check_elements(r.items)
  ELSE check_command_response(r)

(***************************************************************************)
(* TcpOslServer._send_command                                              *)
(***************************************************************************)
\* if self.__host is None or self.__port is None: raise RuntimeError
\* start_time = time.time(); client = TcpClient(logger=self._logger)
send_command_enter ==
  /\ pc = "s_enter"
  /\ IF ~hostSet
     THEN /\ pc' = "idle"
          /\ result' = "RuntimeError"
          /\ UNCHANGED cmdStart
     ELSE /\ pc' = "s_connect"
          /\ cmdStart' = now
          /\ UNCHANGED result
  /\ UNCHANGED <<envVars, top, exc, calls, timeout, connVars,
                 recvVars, srvTimeout, hostSet, response, cause, errmsg,
                 sent, timeoutAlias>>
  /\ UNCHANGED restVars

\* The evaluation of timeout=_get_current_timeout(self.__timeout, start_time)
\* and the call of the transport method entered at label `entry`.
SendCommandStep(at, entry) ==
  /\ pc = at
  /\ \E t \in ClockReads :
       LET g == get_current_timeout(srvTimeout, cmdStart, t) IN
       /\ now' = t
       /\ IF g.raise
          THEN /\ exc' = "TimeoutError"
               /\ pc' = "s_except"
               /\ UNCHANGED timeout
          ELSE /\ timeout' = g.val
               /\ pc' = entry
               /\ UNCHANGED exc
  /\ UNCHANGED <<sock, opened, connected, sockTimeout, wire, inbuf,
                 peerClosed, replied, top, result, calls, connVars, recvVars,
                 cmdVars>>
  /\ UNCHANGED restVars

send_command_connect == SendCommandStep("s_connect", "c_enter")
send_command_send    == SendCommandStep("s_send", "m_enter")
send_command_receive == SendCommandStep("s_receive", "r_enter")

\* except TimeoutError: raise
\* except Exception: raise OslCommunicationError(...) from ex
send_command_except ==
  /\ pc = "s_except"
  /\ cause' = exc
  /\ IF exc = "socket.timeout" /\ timeoutAlias = "unknown"
     THEN timeoutAlias' \in {"yes", "no"}
     ELSE UNCHANGED timeoutAlias
  /\ exc' = IF IsTimeoutError(exc, timeoutAlias' = "yes")
            THEN "TimeoutError"             \* except TimeoutError: raise
            ELSE "OslCommunicationError"
  /\ pc' = "s_finally"
  /\ UNCHANGED <<envVars, top, result, calls, timeout, connVars, recvVars,
                 srvTimeout, hostSet, cmdStart, response, errmsg, sent>>
  /\ UNCHANGED restVars

\* finally: client.disconnect(); the exception, if any, leaves _send_command
send_command_finally ==
  /\ pc = "s_finally"
  /\ CloseSocket
  /\ IF exc = "ok"
     THEN /\ pc' = "s_loads"
          /\ UNCHANGED result
     ELSE /\ pc' = "idle"
          /\ result' = exc
  /\ UNCHANGED <<now, top, exc, calls, timeout, connVars, recvVars,
                 cmdVars>>
  /\ UNCHANGED <<waitVars, out, sendFile, filePos>>

\* response = json.loads(response_str), outside the try block
send_command_loads ==
  /\ pc = "s_loads"
  /\ IF IsJson(received)
     THEN /\ response' \in Docs
          /\ pc' = "s_check"
          /\ UNCHANGED result
     ELSE /\ pc' = "idle"
          /\ result' = "JSONDecodeError"
          /\ UNCHANGED response
  /\ UNCHANGED <<envVars, top, exc, calls, timeout, connVars, recvVars,
                 srvTimeout, hostSet, cmdStart, cause, errmsg, sent,
                 timeoutAlias>>
  /\ UNCHANGED restVars

\* the checks of the response; return response
send_command_check ==
  /\ pc = "s_check"
  /\ LET c == check_response(response) IN
     /\ result' = c.e
     /\ errmsg' = c.msg
  /\ pc' = "idle"
  /\ UNCHANGED <<envVars, top, exc, calls, timeout, connVars, recvVars,
                 srvTimeout, hostSet, cmdStart, response, cause, sent,
                 timeoutAlias>>
  /\ UNCHANGED restVars

(***************************************************************************)
(* TcpOslListener and the waiting calls start, stop and stop_gently        *)
(***************************************************************************)
\* The keys of TcpOslServer.__listeners used by start, stop and stop_gently.
Roles == {"exec_started_listener", "exec_finished_listener"}

\* The notifications a role listener is registered for.
Registered(r) ==
  IF r = "exec_started_listener"
  THEN {"EXECUTION_STARTED", "EXEC_FAILED", "CHECK_FAILED"}
  ELSE {"EXECUTION_FINISHED", "NOTHING_PROCESSED", "EXEC_FAILED",
        "CHECK_FAILED"}

\* The target notifications start, stop and stop_gently hand to the one-shot
\* callback of a role listener.
Targets(r) ==
  IF r = "exec_started_listener"
  THEN {"EXECUTION_STARTED"}
  ELSE {"EXECUTION_FINISHED", "NOTHING_PROCESSED"}

\* Python's `a or b` on strings: a unless it is empty.
PyOr(a, b) == IF a # "" THEN a ELSE b
\* Python's bool False, and the truth value of what a queue handed over.
PyFalse == "<False>"
Truthy(x) == x \notin {PyFalse, ""}

\* The list literal [EXEC_FAILED.name or CHECK_FAILED.name].
FailureTypes == {PyOr("EXEC_FAILED", "CHECK_FAILED")}

\* __terminate_listener_thread: what it puts on its queue for a notification
\* of type ty, "" when it puts nothing and leaves the listener alone.
terminate_listener_thread(ty, target_notifications) ==
  IF ty \in FailureTypes THEN "False"
  ELSE IF ty \in target_notifications THEN "True"
  ELSE ""

\* __execute_callbacks: the for loop over the callback list from index i on;
\* a callback that reacts clears the list the loop is iterating over.  cbs
\* holds, per callback, the number of the call whose queue it was given.
RECURSIVE execute_callbacks(_, _, _, _)
execute_callbacks(cbs, i, ty, target_notifications) ==
  IF i > Len(cbs)
  THEN [cbs |-> cbs, puts |-> <<>>, stop |-> FALSE]
  ELSE LET item == terminate_listener_thread(ty, target_notifications)
       IN  IF item = ""
           THEN execute_callbacks(cbs, i + 1, ty, target_notifications)
           ELSE LET rest == execute_callbacks(<<>>, i + 1, ty,
                                              target_notifications)
                IN  [cbs |-> rest.cbs,
                     puts |-> <<[q |-> cbs[i], item |-> item]>> \o rest.puts,
                     stop |-> TRUE]

\* _is_status_in_stopped_states with a list that lacks STOP_REQUESTED.
is_status_in_stopped_states_short(s) ==
  s \in {"IDLE", "FINISHED", "STOPPED", "ABORT_REQUESTED", "ABORTED"}

\* _is_status_in_stopped_states
StoppedStates == {"IDLE", "FINISHED", "STOP_REQUESTED", "STOPPED",
                  "ABORT_REQUESTED", "ABORTED"}
is_status_in_stopped_states(s) == s \in StoppedStates
\* The states the server reports to stop and stop_gently: those of the
\* list and two others.
ProjectStatuses == StoppedStates \cup {"PROCESSING", "PAUSED"}

\* The project states get_project_status is modelled to return.
Statuses == {"IDLE", "PROCESSING"}
Ops == {"start", "stop", "stop_gently"}

\* The conditions of the stages of start (lines 1438, 1455, 1475, 1478) and
\* of stop and stop_gently (lines 1512, 1513, 1535).
NeedStarted(op, st, s, f) == op = "start" /\ st # "PROCESSING" /\ (s \/ f)
NeedFinished(op, st, f) ==
  IF op = "start" THEN f ELSE f /\ ~is_status_in_stopped_states(st)
NeedCommand(op, st) ==
  IF op = "start" THEN st # "PROCESSING"
  ELSE ~is_status_in_stopped_states(st)
NeedWaitFinished(op, st, f, ok) ==
  IF op = "start" THEN f /\ (Truthy(ok) \/ st = "PROCESSING")
  ELSE f /\ ~is_status_in_stopped_states(st)

\* start, stop and stop_gently with the command sent first and no listener
\* wired before it.
StagePc_command_first(k, op, st, s, f, ok, exists) ==
  IF k < 3 /\ NeedCommand(op, st) THEN "command"
  ELSE IF k < 4 /\ NeedStarted(op, st, s, f) THEN "wait_s"
  ELSE IF k < 5 /\ NeedWaitFinished(op, st, f, ok) THEN "wait_f"
  ELSE IF k < 5 /\ op = "start" THEN "sleep"
  ELSE "return"

\* The position a call reaches after stage k: 0 the status query, 1 the
\* wiring of the started listener, 2 the wiring of the finished listener,
\* 3 the command, 4 the wait for started, 5 the wait for finished.
StagePc(k, op, st, s, f, ok, exists) ==
  IF k < 1 /\ NeedStarted(op, st, s, f)
  THEN IF exists["exec_started_listener"] THEN "wire_s" ELSE "create_s"
  ELSE IF k < 2 /\ NeedFinished(op, st, f)
  THEN IF exists["exec_finished_listener"] THEN "wire_f" ELSE "create_f"
  ELSE IF k < 3 /\ NeedCommand(op, st) THEN "command"
  ELSE IF k < 4 /\ NeedStarted(op, st, s, f) THEN "wait_s"
  ELSE IF k < 5 /\ NeedWaitFinished(op, st, f, ok) THEN "wait_f"
  ELSE IF k < 5 /\ op = "start" THEN "sleep"
  ELSE "return"

NoThread == [pc |-> "none", start |-> 0, deadline |-> 0, timed |-> FALSE]
EndedThread == [pc |-> "ended", start |-> 0, deadline |-> 0, timed |-> FALSE]
\* Time is counted from the call in progress: the start times and deadlines
\* of the threads of earlier calls move with the origin.
Shifted(t, d) ==
  IF t.pc \in {"none", "ended"} THEN t
  ELSE [t EXCEPT !.start = @ - d,
                 !.deadline = IF t.timed THEN @ - d ELSE @]
StartedR == "exec_started_listener"
FinishedR == "exec_finished_listener"

\* The call is over: its arguments, its locals and its queues are gone.
\* A callback it left attached still holds its queue, which nobody reads.
call_over ==
  /\ wpc' = "idle"
  /\ wop' = "start"
  /\ wfs' = FALSE
  /\ wff' = FALSE
  /\ status' = ""
  /\ okStarted' = PyFalse
  /\ startCmds' = 0
  /\ seen' = [r \in Roles |-> ""]
  /\ queue' = [k \in DOMAIN queue |-> <<>>]
  /\ UNCHANGED <<lExists, callbacks, run, thr, pending, wcall, notes, now,
                 timeoutAlias>>

\* The call ends by raising what _send_command raised.
call_raises ==
  /\ wres' = "raised"
  /\ call_over

\* start, stop or stop_gently is called.
start_call ==
  /\ wpc = "idle"
  /\ wcall < MaxWaitCalls
  /\ \E op \in Ops, s \in BOOLEAN, f \in BOOLEAN :
       /\ op # "start" => ~s
       /\ wop' = op
       /\ wfs' = s
       /\ wff' = f
  /\ wcall' = wcall + 1
  /\ wpc' = "status"
  /\ wres' = "none"
  /\ status' = ""
  /\ okStarted' = PyFalse
  /\ startCmds' = 0
  /\ seen' = [r \in Roles |-> ""]
  /\ now' = 0
  /\ thr' = [k \in DOMAIN thr |-> Shifted(thr[k], now)]
  /\ UNCHANGED <<lExists, callbacks, run, pending, queue, notes,
                 timeoutAlias>>
  /\ UNCHANGED xferVars

\* self.get_project_status(): a query sent with _send_command, which the
\* server answers with a state of S.
project_status(S) ==
  /\ wpc = "status"
  /\ \/ /\ \E st \in S :
             /\ status' = st
             /\ wpc' = StagePc(0, wop, st, wfs, wff, okStarted, lExists)
        /\ UNCHANGED <<lisVars, wop, wfs, wff, okStarted, wcall, wres,
                       notes, startCmds, seen, now, timeoutAlias>>
     \/ call_raises
  /\ UNCHANGED xferVars

get_project_status == project_status(Statuses)

\* __create_exec_started_listener / __create_exec_finished_listener: the
\* listener is stored once the server has registered it.
create_listener(r) ==
  /\ wpc = IF r = StartedR THEN "create_s" ELSE "create_f"
  /\ \/ /\ lExists' = [lExists EXCEPT ![r] = TRUE]
        /\ wpc' = IF r = StartedR THEN "wire_s" ELSE "wire_f"
        /\ UNCHANGED <<callbacks, run, thr, pending, queue, wop, wfs, wff,
                       status, okStarted, wcall, wres, notes, startCmds,
                       seen, now, timeoutAlias>>
     \/ call_raises
  /\ UNCHANGED xferVars

\* stop_listening on the listener r, the flags being run1.
stop_listening(run1, r) == [run1 EXCEPT ![r] = FALSE]

\* __listen from the loop condition to the accept: the thread that started
\* at start_time ends if the flag is down or the timeout has expired, and
\* otherwise blocks in accept with what is left of the timeout.
listen_iteration(start_time, run1, r, t) ==
  IF ~run1[r]
  THEN [run |-> run1, th |-> EndedThread]
  ELSE LET g == get_current_timeout(srvTimeout, start_time, t)
       IN  IF g.raise
           THEN [run |-> stop_listening(run1, r), th |-> EndedThread]
           ELSE [run |-> run1,
                 th |-> [pc |-> "accept", start |-> start_time,
                         timed |-> ~IsNone(g.val) /\ g.val.v # 0,
                         deadline |-> IF IsNone(g.val) THEN 0
                                      ELSE t + g.val.v]]

\* cleanup_notifications, Queue(), add_callback and start_listening.
wire_listener(r) ==
  /\ wpc = IF r = StartedR THEN "wire_s" ELSE "wire_f"
  /\ pending' = [pending EXCEPT ![r] = <<>>]
  /\ callbacks' = [callbacks EXCEPT ![r] = Append(@, wcall)]
  /\ LET it == listen_iteration(now, [run EXCEPT ![r] = TRUE], r, now)
     IN  /\ run' = it.run
         /\ thr' = [thr EXCEPT ![<<r, wcall>>] = it.th]
  /\ seen' = [seen EXCEPT ![r] = ""]
  /\ wpc' = StagePc(IF r = StartedR THEN 1 ELSE 2, wop, status, wfs, wff,
                    okStarted, lExists)
  /\ UNCHANGED <<lExists, queue, wop, wfs, wff, status, okStarted, wcall,
                 wres, notes, startCmds, now, timeoutAlias>>
  /\ UNCHANGED xferVars

\* self._send_command(commands.start / stop / stop_gently)
send_trigger ==
  /\ wpc = "command"
  /\ \/ /\ startCmds' = startCmds + 1
        /\ wpc' = StagePc(3, wop, status, wfs, wff, okStarted, lExists)
        /\ UNCHANGED <<lisVars, wop, wfs, wff, status, okStarted, wcall,
                       wres, notes, seen, now, timeoutAlias>>
     \/ call_raises
  /\ UNCHANGED xferVars

\* successfully_started = wait_for_started_queue.get()
wait_for_started ==
  /\ wpc = "wait_s"
  /\ queue[<<wcall, StartedR>>] # <<>>
  /\ okStarted' = Head(queue[<<wcall, StartedR>>])
  /\ queue' = [queue EXCEPT ![<<wcall, StartedR>>] = Tail(@)]
  /\ wpc' = StagePc(4, wop, status, wfs, wff, okStarted', lExists)
  /\ UNCHANGED <<lExists, callbacks, run, thr, pending, wop, wfs, wff,
                 status, wcall, wres, notes, startCmds, seen, now,
                 timeoutAlias>>
  /\ UNCHANGED xferVars

\* successfully_finished = wait_for_finished_queue.get()
wait_for_finished ==
  /\ wpc = "wait_f"
  /\ queue[<<wcall, FinishedR>>] # <<>>
  /\ queue' = [queue EXCEPT ![<<wcall, FinishedR>>] = Tail(@)]
  /\ wpc' = "return"
  /\ UNCHANGED <<lExists, callbacks, run, thr, pending, wop, wfs, wff,
                 status, okStarted, wcall, wres, notes, startCmds, seen, now,
                 timeoutAlias>>
  /\ UNCHANGED xferVars

\* time.sleep(1) at the end of start
sleep ==
  /\ wpc = "sleep"
  /\ now' = now + 1
  /\ wpc' = "return"
  /\ UNCHANGED <<lisVars, wop, wfs, wff, status, okStarted, wcall, wres,
                 notes, startCmds, seen, timeoutAlias>>
  /\ UNCHANGED xferVars

\* The call returns.
call_return ==
  /\ wpc = "return"
  /\ wres' = "returned"
  /\ call_over
  /\ UNCHANGED xferVars

\* The server connects to the port of a registered listener to push a
\* notification.
notify(r, ty) ==
  /\ lExists[r]
  /\ ty \in Registered(r)
  /\ notes < MaxNotes
  /\ notes' = notes + 1
  /\ pending' = [pending EXCEPT ![r] = Append(@, ty)]
  /\ UNCHANGED <<lExists, callbacks, run, thr, queue, callVars, startCmds,
                 seen, now, timeoutAlias>>
  /\ UNCHANGED xferVars

\* __listen: accept returns a connection; the message is received, parsed
\* and acknowledged, and the callbacks are executed, or one of the steps
\* raises; then the loop goes on to its next accept or ends.
listen_accept(r, n) ==
  /\ thr[<<r, n>>].pc = "accept"
  /\ pending[r] # <<>>
  /\ pending' = [pending EXCEPT ![r] = Tail(@)]
  /\ \/ LET x == execute_callbacks(callbacks[r], 1, Head(pending[r]),
                                   Targets(r))
            it == listen_iteration(thr[<<r, n>>].start,
                     IF x.stop THEN stop_listening(run, r) ELSE run, r, now)
        IN  /\ callbacks' = [callbacks EXCEPT ![r] = x.cbs]
            /\ queue' = IF x.puts = <<>> \/ x.puts[1].q # wcall
                           \/ wpc = "idle"
                        THEN queue
                        ELSE [queue EXCEPT ![<<x.puts[1].q, r>>] =
                                Append(@, x.puts[1].item)]
            /\ seen' = IF wpc = "idle" THEN seen
                       ELSE [seen EXCEPT ![r] = Head(pending[r])]
            /\ run' = it.run
            /\ thr' = [thr EXCEPT ![<<r, n>>] = it.th]
     \/ LET it == listen_iteration(thr[<<r, n>>].start, run, r, now)
        IN  /\ run' = it.run
            /\ thr' = [thr EXCEPT ![<<r, n>>] = it.th]
            /\ UNCHANGED <<callbacks, queue, seen>>
     \/ /\ ~IsNone(srvTimeout)
        /\ run' = stop_listening(run, r)
        /\ thr' = [thr EXCEPT ![<<r, n>>] = EndedThread]
        /\ UNCHANGED <<callbacks, queue, seen>>
  /\ UNCHANGED <<lExists, callVars, notes, startCmds, now, timeoutAlias>>
  /\ UNCHANGED xferVars

\* __listen: accept raises socket.timeout, which the first except clause
\* catches where it is the builtin TimeoutError and the second one where it
\* is not.
listen_timeout(r, n) ==
  /\ thr[<<r, n>>].pc = "accept"
  /\ pending[r] = <<>>
  /\ thr[<<r, n>>].timed
  /\ now' = IF now < thr[<<r, n>>].deadline
            THEN thr[<<r, n>>].deadline ELSE now
  /\ \E alias \in BOOLEAN :
       LET it == IF IsTimeoutError("socket.timeout", alias)
                 THEN [run |-> stop_listening(run, r), th |-> EndedThread]
                 ELSE listen_iteration(thr[<<r, n>>].start, run, r, now')
       IN  /\ run' = it.run
           /\ thr' = [thr EXCEPT ![<<r, n>>] = it.th]
  /\ UNCHANGED <<lExists, callbacks, pending, queue, callVars, notes,
                 startCmds, seen, timeoutAlias>>
  /\ UNCHANGED xferVars

\* The keys of TcpOslServer.__listeners, in the order of insertion: the main
\* listener comes first (__init__, _start_local).
KeyOrder == <<"main_listener", "exec_started_listener",
              "exec_finished_listener">>
Keys == {KeyOrder[i] : i \in 1..Len(KeyOrder)}

\* A key of __listeners without a listener.
NoListener == [in |-> FALSE, uid |-> FALSE, timeout |-> None, open |-> FALSE,
               ref |-> FALSE, alive |-> FALSE]

\* _start_local is not modelled.
LocalIdle ==
  /\ slpc = "idle"
  /\ slPort = 0
  /\ slExc = "none"
  /\ slRes = "none"

\* No iterator: the refresh thread is not in its for loop.
NoIter == [pos |-> 0, used |-> 0]

\* The refresh thread is not modelled step by step.
RefreshIdle ==
  /\ counter = 0
  /\ rfpc = "none"
  /\ rfIter = NoIter
  /\ rfCur = ""
  /\ rfSent = <<>>
  /\ rfPasses = 0
  /\ rfAge = 0

\* No call of shutdown or set_timeout is modelled.
ClientIdle ==
  /\ RefreshIdle
  /\ LocalIdle
  /\ procHandle = FALSE
  /\ procState = "running"
  /\ shutdownOnFinished = FALSE
  /\ refreshFlag = FALSE
  /\ refreshThr = "none"
  /\ reg = [k \in Keys |-> NoListener]
  /\ cmdLog = <<>>
  /\ spc = "idle"
  /\ force = FALSE
  /\ todo = <<>>
  /\ held = {}
  /\ sres = "none"

\* No accepted connection.
NoConn == [id |-> 0, kind |-> "none"]

\* No single listener is modelled.
LoopIdle ==
  /\ lsOpen = FALSE
  /\ lsRun = FALSE
  /\ lsRef = FALSE
  /\ lsPc = "none"
  /\ lsTimeout = None
  /\ lsExpired = FALSE
  /\ lsConns = <<>>
  /\ lsCur = NoConn
  /\ lsCbs = <<>>
  /\ lsLog = <<>>
  /\ kpc = "idle"
  /\ kCur = NoConn

\* No call of start, stop or stop_gently was made and no listener exists.
WaitIdle ==
  /\ lExists = [r \in Roles |-> FALSE]
  /\ callbacks = [r \in Roles |-> <<>>]
  /\ run = [r \in Roles |-> FALSE]
  /\ thr = [k \in Roles \X (1..MaxWaitCalls) |-> NoThread]
  /\ pending = [r \in Roles |-> <<>>]
  /\ queue = [k \in (1..MaxWaitCalls) \X Roles |-> <<>>]
  /\ wpc = "idle"
  /\ wop = "start"
  /\ wfs = FALSE
  /\ wff = FALSE
  /\ status = ""
  /\ okStarted = PyFalse
  /\ wcall = 0
  /\ wres = "none"
  /\ notes = 0
  /\ startCmds = 0
  /\ seen = [r \in Roles |-> ""]

(***************************************************************************)
(* The caller                                                              *)
(***************************************************************************)
\* The timeout arguments the transport methods are called with.
TimeoutArgs == {None, IntT(0), IntT(MaxTimeout)}
                 \cup {FloatT(n) : n \in 0..MaxTimeout}
\* The values set_timeout accepts.
SrvTimeouts == {None, FloatT(MaxTimeout)}
                 \cup {IntT(n) : n \in 1..MaxTimeout}

EntryOf(op) ==
  CASE op = "connect"      -> "c_enter"
    [] op = "disconnect"   -> "d_enter"
    [] op = "send_msg"     -> "m_enter"
    [] op = "receive_msg"  -> "r_enter"
    [] op = "receive_file" -> "f_enter"
    [] op = "send_file"    -> "sf_enter"
    [] op = "send_command" -> "s_enter"

\* What a call starts from: time is counted from the call, the locals and
\* the records of the previous call are gone.
Fresh ==
  /\ now' = 0
  /\ calls' = calls + 1
  /\ result' = "none"
  /\ exc' = "ok"
  /\ cStart' = 0 /\ ci' = 0 /\ ncand' = 0 /\ accN' = 0
  /\ connectTimedOut' = FALSE
  /\ rStart' = 0 /\ lenStart' = 0 /\ len1' = <<>> /\ msgLen' = 0
  /\ remainT' = None /\ bStart' = 0 /\ received' = <<>> /\ file' = <<>>
  /\ settimeouts' = 0 /\ pairs' = 0 /\ mismatch' = FALSE
  /\ cmdStart' = 0 /\ response' = Number /\ cause' = "ok" /\ errmsg' = ""
  /\ sent' = 0
  /\ out' = <<>>
  /\ filePos' = 0
  /\ UNCHANGED <<sock, opened, connected, sockTimeout, wire, inbuf,
                 peerClosed, replied, srvTimeout, hostSet, timeoutAlias>>
  /\ UNCHANGED <<waitVars, stream>>

\* A method of a TcpClient is called.
CallTransport ==
  /\ pc = "idle"
  /\ calls < MaxCalls
  /\ \E op \in {"connect", "disconnect", "send_msg", "receive_msg",
                "receive_file", "send_file"} :
       /\ top' = op
       /\ pc' = EntryOf(op)
       /\ IF op = "disconnect"
          THEN timeout' = None
          ELSE timeout' \in TimeoutArgs
       /\ IF op = "send_file"
          THEN sendFile' \in SendFiles
          ELSE sendFile' = <<>>
  /\ Fresh

\* _send_command is called; it creates a TcpClient of its own.
CallCommand ==
  /\ pc = "idle"
  /\ calls < MaxCmds
  /\ sock = 0
  /\ opened = {}
  /\ top' = "send_command"
  /\ pc' = "s_enter"
  /\ timeout' = None
  /\ sendFile' = <<>>
  /\ Fresh

InitCommon ==
  /\ now = 0
  /\ sock = 0
  /\ opened = {}
  /\ connected = {}
  /\ sockTimeout = None
  /\ wire = <<>>
  /\ inbuf = <<>>
  /\ peerClosed = FALSE
  /\ replied = FALSE
  /\ top = "none"
  /\ pc = "idle"
  /\ exc = "ok"
  /\ result = "none"
  /\ calls = 0
  /\ timeout = None
  /\ cStart = 0 /\ ci = 0 /\ ncand = 0 /\ accN = 0
  /\ connectTimedOut = FALSE
  /\ rStart = 0 /\ lenStart = 0 /\ len1 = <<>> /\ msgLen = 0
  /\ remainT = None /\ bStart = 0 /\ received = <<>> /\ file = <<>>
  /\ settimeouts = 0 /\ pairs = 0 /\ mismatch = FALSE
  /\ cmdStart = 0
  /\ response = Number
  /\ cause = "ok"
  /\ errmsg = ""
  /\ sent = 0
  /\ stream = <<>>
  /\ out = <<>>
  /\ sendFile = <<>>
  /\ filePos = 0

\* The transport used on its own.
Init ==
  /\ InitCommon
  /\ ClientIdle
  /\ LoopIdle
  /\ WaitIdle
  /\ BindIdle
  /\ srvTimeout = None
  /\ hostSet = TRUE
  /\ timeoutAlias = "unknown"

\* The command client: its timeout is None or what set_timeout accepted; its
\* host and port are set, or were cleared by _force_shutdown_local_process.
InitCmd ==
  /\ InitCommon
  /\ ClientIdle
  /\ LoopIdle
  /\ WaitIdle
  /\ BindIdle
  /\ srvTimeout \in SrvTimeouts
  /\ hostSet \in BOOLEAN
  /\ timeoutAlias = "unknown"

Transport ==
  \/ connect_enter
  \/ connect_socket
  \/ connect_settimeout
  \/ connect_accepted
  \/ connect_failed
  \/ connect_end
  \/ finalize_socket
  \/ peer_send
  \/ deliver
  \/ send_msg
  \/ receive_msg
  \/ recv_response_length_enter
  \/ recv_response_length_select
  \/ recv_response_length_first
  \/ recv_response_length_second
  \/ recv_response_length_check
  \/ receive_after_length
  \/ receive_bytes_enter
  \/ receive_bytes_loop
  \/ receive_bytes_recv
  \/ receive_done

Next ==
  \/ CallTransport
  \/ Transport
  \/ disconnect
  \/ receive_file
  \/ send_file_enter
  \/ send_file_loop

NextCmd ==
  \/ CallCommand
  \/ Transport
  \/ send_command_enter
  \/ send_command_connect
  \/ send_command_send
  \/ send_command_receive
  \/ send_command_except
  \/ send_command_finally
  \/ send_command_loads
  \/ send_command_check

\* The waiting calls: the server's timeout is None or what set_timeout
\* accepted, which is the timeout the role listeners are created with.
InitWait ==
  /\ InitCommon
  /\ ClientIdle
  /\ LoopIdle
  /\ WaitIdle
  /\ BindIdle
  /\ srvTimeout \in {None, FloatT(MaxTimeout)}
  /\ hostSet = TRUE
  /\ timeoutAlias = "unknown"

CallerStep ==
  \/ start_call
  \/ get_project_status
  \/ \E r \in Roles : create_listener(r)
  \/ \E r \in Roles : wire_listener(r)
  \/ send_trigger
  \/ wait_for_started
  \/ wait_for_finished
  \/ sleep
  \/ call_return

ListenerStep ==
  \/ \E r \in Roles, n \in 1..MaxWaitCalls : listen_accept(r, n)
  \/ \E r \in Roles, n \in 1..MaxWaitCalls : listen_timeout(r, n)

ServerStep == \E r \in Roles : \E ty \in Registered(r) : notify(r, ty)

NextWait ==
  \/ CallerStep
  \/ ListenerStep
  \/ ServerStep

Spec == Init /\ [][Next]_vars

SpecCmd == InitCmd /\ [][NextCmd]_vars

SpecWait == InitWait /\ [][NextWait]_vars

\* The threads are scheduled: a listener thread that can take a step takes
\* it, and so does the calling thread.  The server is free never to push.
SpecWaitFair ==
  /\ SpecWait
  /\ WF_vars(CallerStep)
  /\ WF_vars(ListenerStep)

(***************************************************************************)
(* The construction of a TcpOslListener: __init__, __init_listener_socket, *)
(* and the check of __create_listener.  A port is free if bind and listen  *)
(* succeed on it.                                                          *)
(***************************************************************************)
\* TcpOslListener.is_initialized
is_initialized(listener_socket) == listener_socket # 0

Ports == 1..MaxPort
\* The port ranges that pass the checks of __init__.
PortRanges == {r \in Ports \X Ports : r[1] <= r[2]}

InitListener ==
  /\ InitCommon
  /\ ClientIdle
  /\ LoopIdle
  /\ WaitIdle
  /\ srvTimeout = None
  /\ hostSet = TRUE
  /\ timeoutAlias = "unknown"
  /\ portRange \in PortRanges
  /\ occupied \in SUBSET Ports
  /\ port = 0
  /\ listenerSocket = 0
  /\ lpc = "new"
  /\ lres = "none"

\* What the construction leaves alone.
bindFrame == <<envVars, ctlVars, connVars, recvVars, cmdVars, sendVars,
               lExists, callbacks, run, thr, pending, queue, wpc, wop, wfs,
               wff, status, okStarted, wcall, wres, notes, startCmds, seen,
               clientVars, loopVars, refreshVars, localVars>>

\* TcpOslListener.__init__ up to the loop of __init_listener_socket:
\* self.__listener_socket = None; for port in range(lo, hi + 1)
listener_init ==
  /\ lpc = "new"
  /\ listenerSocket' = 0
  /\ port' = portRange[1]
  /\ lpc' = "try"
  /\ UNCHANGED <<portRange, occupied, lres, bindFrame>>

\* A loop that goes on to the next port after it has bound one.
init_listener_socket_on ==
  /\ lpc = "try"
  /\ IF port > portRange[2]
     THEN /\ lpc' = "done"
          /\ UNCHANGED <<port, listenerSocket>>
     ELSE /\ listenerSocket' = IF port \notin occupied THEN port ELSE 0
          /\ port' = port + 1
          /\ lpc' = "try"
  /\ UNCHANGED <<portRange, occupied, lres, bindFrame>>

\* One pass of the loop: socket(), bind, listen and break, or the IOError
\* of bind on a port in use: close, None, and on to the next port.
init_listener_socket ==
  /\ lpc = "try"
  /\ IF port > portRange[2]
     THEN /\ lpc' = "done"
          /\ UNCHANGED <<port, listenerSocket>>
     ELSE IF port \notin occupied
     THEN /\ listenerSocket' = port
          /\ lpc' = "done"
          /\ UNCHANGED port
     ELSE /\ listenerSocket' = 0
          /\ port' = port + 1
          /\ lpc' = "try"
  /\ UNCHANGED <<portRange, occupied, lres, bindFrame>>

\* __create_listener: if not listener.is_initialized(): raise RuntimeError
create_listener_check ==
  /\ lpc = "done"
  /\ lres' = IF ~is_initialized(listenerSocket) THEN "RuntimeError"
             ELSE "returned"
  /\ lpc' = "end"
  /\ UNCHANGED <<portRange, occupied, port, listenerSocket, bindFrame>>

NextListener ==
  \/ listener_init
  \/ init_listener_socket
  \/ create_listener_check

SpecListener == InitListener /\ [][NextListener]_vars

(***************************************************************************)
(* TcpOslServer.new, open, save and save_as, called on a client in any of  *)
(* its states: with or without a timeout, with host and port set or        *)
(* cleared, with or without the role listeners in __listeners.             *)
(***************************************************************************)
Unsupported == {"new", "open", "save", "save_as"}

InitUnsupported ==
  /\ InitCommon
  /\ ClientIdle
  /\ LoopIdle
  /\ lExists \in [Roles -> BOOLEAN]
  /\ callbacks = [r \in Roles |-> <<>>]
  /\ run = [r \in Roles |-> FALSE]
  /\ thr = [k \in Roles \X (1..MaxWaitCalls) |-> NoThread]
  /\ pending = [r \in Roles |-> <<>>]
  /\ queue = [k \in (1..MaxWaitCalls) \X Roles |-> <<>>]
  /\ wpc = "idle" /\ wop = "start" /\ wfs = FALSE /\ wff = FALSE
  /\ status = "" /\ okStarted = PyFalse /\ wcall = 0 /\ wres = "none"
  /\ notes = 0 /\ startCmds = 0
  /\ seen = [r \in Roles |-> ""]
  /\ BindIdle
  /\ srvTimeout \in SrvTimeouts
  /\ hostSet \in BOOLEAN
  /\ timeoutAlias = "unknown"

\* A method that sends its command with _send_command, as save_copy does,
\* and raises what that raises.
sends_command(op) ==
  /\ pc = "idle"
  /\ top' = op
  /\ sent' = sent + 1
  /\ result' = "OslCommunicationError"
  /\ UNCHANGED <<envVars, pc, exc, calls, timeout, connVars, recvVars,
                 srvTimeout, hostSet, cmdStart, response, cause, errmsg,
                 timeoutAlias, waitVars, sendVars>>

\* new, open, save, save_as: the body is
\* raise NotImplementedError("Currently, command is not supported ...").
not_supported(op) ==
  /\ pc = "idle"
  /\ top' = op
  /\ result' = "NotImplementedError"
  /\ UNCHANGED <<envVars, pc, exc, calls, timeout, connVars, recvVars,
                 cmdVars, waitVars, sendVars>>

NextUnsupported == \E op \in Unsupported : not_supported(op)

SpecUnsupported == InitUnsupported /\ [][NextUnsupported]_vars

(***************************************************************************)
(* _get_current_timeout on its own: it is called with a budget and with a  *)
(* start time that was read from the clock no later than now.              *)
(***************************************************************************)
\* Everything but the clock, the arguments and the outcome of the call.
resolverFrame == <<sock, opened, connected, sockTimeout, wire, inbuf,
                   peerClosed, replied, result, calls, connVars, lenStart,
                   len1, msgLen, bStart, received, file, settimeouts, pairs,
                   mismatch, cmdVars, waitVars, sendVars>>

InitResolver == Init

\* _get_current_timeout(initial_timeout, start_time) is called.
get_current_timeout_call ==
  /\ pc = "idle"
  /\ top' = "get_current_timeout"
  /\ pc' = "g_enter"
  /\ timeout' \in TimeoutArgs
  /\ now' \in now..MaxTime
  /\ rStart' \in 0..now'
  /\ exc' = "ok"
  /\ remainT' = None
  /\ UNCHANGED resolverFrame

\* Its body: time.time() is read and the remaining budget is returned, or
\* TimeoutError is raised.
get_current_timeout_body ==
  /\ pc = "g_enter"
  /\ \E t \in ClockReads :
       LET g == get_current_timeout(timeout, rStart, t) IN
       /\ now' = t
       /\ exc' = IF g.raise THEN "TimeoutError" ELSE "ok"
       /\ remainT' = g.val
  /\ pc' = "idle"
  /\ UNCHANGED <<top, timeout, rStart>>
  /\ UNCHANGED resolverFrame

NextResolver ==
  \/ get_current_timeout_call
  \/ get_current_timeout_body

SpecResolver == InitResolver /\ [][NextResolver]_vars

(***************************************************************************)
(* Properties                                                              *)
(***************************************************************************)
\* A call of the transport or of _send_command has ended.
Ended(op) == top = op /\ pc = "idle" /\ result # "none"

\* C1: when receive_msg or receive_file reads a frame header whose two
\* length fields differ, the call fails with ResponseFormatError: as soon as
\* the mismatch is detected the call is over with that error; it does not go
\* on waiting, it does not end with another error, and no later pair of
\* fields is read as the header.
C1_MismatchRaisesResponseFormatError ==
  mismatch => (pc = "idle" /\ result = "ResponseFormatError")

\* The failure set: both failure notifications.
BothFailureTypes == {"EXEC_FAILED", "CHECK_FAILED"}

\* The call is blocked on the queue that the callback of the listener r was
\* given.
BlockedOn(r) ==
  \/ wpc = "wait_s" /\ r = StartedR
  \/ wpc = "wait_f" /\ r = FinishedR

\* C2: while start, stop or stop_gently is blocked on its queue, a
\* notification of type EXEC_FAILED or CHECK_FAILED that the role listener
\* has received puts the failure result on that queue, so the call does not
\* keep waiting: for neither type is the call blocked on an empty queue
\* after the listener handed the notification to its callbacks.
C2_FailureNotificationResolvesWait ==
  \A r \in Roles :
    (BlockedOn(r) /\ seen[r] \in BothFailureTypes)
      => queue[<<wcall, r>>] = <<"False">>

\* A notification has arrived at the listener r since the call attached its
\* callback.
Arrived(r) == pending[r] # <<>> \/ seen[r] # ""

\* C3: with a finite timeout, a call of start, stop or stop_gently that is
\* blocked waiting for a notification which never arrives does not block
\* forever: it ends by raising.
C3_WaitEndsByTimeout ==
  /\ (BlockedOn(StartedR) /\ ~IsNone(srvTimeout))
        ~> (wres = "raised" \/ Arrived(StartedR))
  /\ (BlockedOn(FinishedR) /\ ~IsNone(srvTimeout))
        ~> (wres = "raised" \/ Arrived(FinishedR))

\* C4: start(wait_for_finished=True) called while the status is PROCESSING
\* sends no start command, does not wire or wait for the started listener,
\* and blocks on the finished queue; once the finished listener has received
\* EXECUTION_FINISHED or NOTHING_PROCESSED the queue holds the success
\* result, and once it has received EXEC_FAILED the queue holds the failure
\* result, so the call is never left blocked on an empty queue.
C4_AlreadyRunningStartWaitsForFinished ==
  (wop = "start" /\ wff /\ status = "PROCESSING") =>
    /\ startCmds = 0
    /\ wpc \in {"wire_f", "create_f", "wait_f", "return"}
    /\ (wpc = "wait_f" /\ seen[FinishedR] \in Targets(FinishedR))
         => queue[<<wcall, FinishedR>>] = <<"True">>
    /\ (wpc = "wait_f" /\ seen[FinishedR] = "EXEC_FAILED")
         => queue[<<wcall, FinishedR>>] = <<"False">>

\* _send_command has decoded a response and checked it.
Decoded == Ended("send_command") /\ exc = "ok" /\ IsJson(received)

\* The object carries a status equal, ignoring case, to "failure".
IsFailure(r) ==
  /\ r.kind = "dict"
  /\ "status" \in DOMAIN r.d
  /\ r.d["status"].t = "str"
  /\ Lower(r.d["status"].s) = "failure"

\* The response is an object or a list of objects.
IsObjects(r) ==
  \/ r.kind = "dict"
  \/ r.kind = "list" /\ \A i \in 1..Len(r.items) : r.items[i].kind = "dict"

HasFailure(r) ==
  IF r.kind = "list"
  THEN \E i \in 1..Len(r.items) : IsFailure(r.items[i])
  ELSE IsFailure(r)

\* The first failing object of a response that has one.
FirstFailure(r) ==
  IF r.kind = "list"
  THEN r.items[CHOOSE i \in 1..Len(r.items) :
                 /\ IsFailure(r.items[i])
                 /\ \A j \in 1..(i - 1) : ~IsFailure(r.items[j])]
  ELSE r

\* The text asked of the Command error for a failing object.
FailureText(r) ==
  LET d == r.d IN
  IF "message" \in DOMAIN d /\ "std_err" \in DOMAIN d
  THEN d["message"].s \o "; " \o d["std_err"].s
  ELSE IF "message" \in DOMAIN d THEN d["message"].s
  ELSE IF "std_err" \in DOMAIN d THEN d["std_err"].s
  ELSE "Command error: " \o StrOfDict(d)

\* C5: for every decoded response that is an object or a list of objects,
\* _send_command raises OslCommandError if and only if some object carries a
\* status equal, ignoring case, to "failure", and returns otherwise; for a
\* list the error is that of the first failing object.
C5_CommandErrorIffFailureStatus ==
  (Decoded /\ IsObjects(response)) =>
     IF HasFailure(response)
     THEN /\ result = "OslCommandError"
          /\ errmsg = FailureText(FirstFailure(response))
     ELSE result = "ok"

\* C6: for a response object with failure status the error raised is an
\* OslCommandError for every combination of the message and std_err keys,
\* with the message, the message and std_err, std_err alone, or the dump of
\* the response as its text.
C6_FailureTextForEveryKeyCombination ==
  (Decoded /\ response.kind = "dict" /\ IsFailure(response)) =>
     /\ result = "OslCommandError"
     /\ errmsg = FailureText(response)

\* The exception the transport raised inside _send_command is the expiry of
\* the deadline: a TimeoutError, a socket.timeout, or the refusal that
\* connect makes of an attempt that timed out.
DeadlineExpired ==
  \/ cause \in {"TimeoutError", "socket.timeout"}
  \/ cause = "ConnectionRefusedError" /\ connectTimedOut

\* C7: in _send_command every exception of connect, send_msg or receive_msg
\* that is not the expiry of the deadline is re-raised as
\* OslCommunicationError, and the expiry of the deadline is raised as
\* TimeoutError, never as OslCommunicationError.
C7_TransportErrorsWrappedTimeoutNot ==
  (Ended("send_command") /\ cause # "ok") =>
     IF DeadlineExpired THEN result = "TimeoutError"
     ELSE result = "OslCommunicationError"

\* C8: a call of _send_command that does not return a response ends with
\* RuntimeError, TimeoutError, OslCommunicationError or OslCommandError,
\* whatever the server replied.
C8_OnlyDocumentedErrorsEscape ==
  Ended("send_command") =>
     result \in {"ok", "RuntimeError", "TimeoutError",
                 "OslCommunicationError", "OslCommandError"}

\* C9: after _send_command returned or raised, the client it created is
\* disconnected and no socket that client opened is still open, and the
\* call has sent at most one command.
C9_ConnectionClosedAfterCommand ==
  Ended("send_command") =>
     /\ ~is_connected
     /\ opened = {}
     /\ sent <= 1

\* C10: connect on a disconnected client succeeds, connected to a candidate
\* that accepted, if and only if some candidate accepted, and raises
\* ConnectionRefusedError only if none did; on a connected client it raises
\* ConnectionEstablishedError and leaves the connection alone; after it
\* raised on a disconnected client, is_connected is false.
C10_ConnectSucceedsIffSomeCandidateAccepts ==
  Ended("connect") =>
     IF result = "ConnectionEstablishedError"
     THEN sock \in connected
     ELSE /\ accN > 0 <=> result = "ok"
          /\ result = "ok" => sock \in connected
          /\ result = "ConnectionRefusedError" => accN = 0
          /\ result # "ok" => ~is_connected

\* C11: at every moment the transport owns at most one open socket: every
\* socket it opened is the one it holds or has been closed; and when
\* disconnect has returned, no socket it opened is open.
C11_AtMostOneOpenSocket ==
  /\ opened \subseteq {sock}
  /\ Ended("disconnect") => opened = {}

\* The resolver has just returned or raised; the time it read is now.
Resolved == top = "get_current_timeout" /\ pc = "idle"

\* C12: for a budget b and a start time s, read from the clock no later than
\* now, _get_current_timeout raises TimeoutError whenever b is a positive
\* number and now - s >= b; returns b - (now - s), a positive value,
\* whenever b is a positive number and now - s < b; returns 0 whenever b is
\* 0; returns None whenever b is None; and never returns more than b.
C12_ResolverContract ==
  Resolved =>
    LET b == timeout
        elapsed == now - rStart
    IN  /\ (~IsNone(b) /\ b.v > 0 /\ elapsed >= b.v) => exc = "TimeoutError"
        /\ (~IsNone(b) /\ b.v > 0 /\ elapsed < b.v) =>
              /\ exc = "ok"
              /\ ~IsNone(remainT)
              /\ remainT.v = b.v - elapsed
              /\ remainT.v > 0
        /\ (~IsNone(b) /\ b.v = 0) =>
              exc = "ok" /\ ~IsNone(remainT) /\ remainT.v = 0
        /\ IsNone(b) => exc = "ok" /\ IsNone(remainT)
        /\ (exc = "ok" /\ ~IsNone(b)) => ~IsNone(remainT) /\ remainT.v <= b.v

\* The budget has elapsed exactly.
C12_Witness_ExactlyElapsed ==
  /\ Resolved
  /\ ~IsNone(timeout) /\ timeout.v > 0
  /\ now - rStart = timeout.v
  /\ exc = "TimeoutError"

\* A socket call is about to be made that waits, for as long as the timeout
\* sockTimeout allows: socket.connect, or a recv that finds nothing to read.
BlockingStep ==
  \/ pc = "c_connect"
  \/ pc \in {"l_recv2", "b_recv"} /\ inbuf = <<>> /\ ~AtEof

\* C13: within _send_command (connect, send, receive) and within the
\* receive_msg it calls (header, then payload), a blocking step is attempted
\* only with a socket timeout that ends no later than the budget counted
\* from the start of the operation: the time elapsed since the start plus
\* the step's timeout does not exceed the original budget.
C13_StepsWithinOriginalBudget ==
  (top = "send_command" /\ BlockingStep /\ ~IsNone(srvTimeout)) =>
     /\ ~IsNone(sockTimeout)
     /\ (now - cmdStart) + sockTimeout.v <= srvTimeout.v
     /\ (pc \in {"l_recv2", "b_recv"} /\ ~IsNone(timeout)) =>
           (now - rStart) + sockTimeout.v <= timeout.v

\* The messages of the model that a peer hands to send_msg.
Messages == {<<1>>, <<2>>, <<1, 2>>}
\* The peer of this connection is a transport that called send_msg once.
SentBySendMsg == replied /\ \E d \in Messages : stream = send_msg_data(d)

\* The bytes receive_msg has read and holds: nothing while it looks for the
\* header, the first length field, the two fields, and then the payload.
Held ==
  CASE pc \in {"l_enter", "l_select", "l_recv1", "l_check"} -> <<>>
    [] pc = "l_recv2" -> len1
    [] pc \in {"r_len", "b_enter"} -> len1 \o len1
    [] OTHER -> len1 \o len1 \o received

\* C14: when the peer has sent one message with send_msg, receive_msg never
\* drops or shifts a byte of it, however the stream arrives: what it holds,
\* followed by what has arrived and what is still under way, is the stream
\* sent; and when it returns, both length fields it read are the length of
\* the message and the payload it returns is the message.
C14_MessageRoundTrip ==
  (top = "receive_msg" /\ SentBySendMsg) =>
     /\ pc # "idle" => Held \o inbuf \o wire = stream
     /\ (pc = "idle" /\ result = "ok") =>
           /\ stream = send_msg_data(received)
           /\ len1 = pack_Q(Len(received))
           /\ msgLen = Len(received)

\* The peer of this connection is a transport that sent a file of one or
\* two bytes with send_file, all of it transmitted.
SentBySendFile ==
  replied /\ \E c \in Messages : stream = Frame(Len(c), Len(c), c)

\* The bytes receive_file has read and holds, the payload being in the file.
HeldFile ==
  CASE pc \in {"f_enter", "l_enter", "l_select", "l_recv1", "l_check"} -> <<>>
    [] pc = "l_recv2" -> len1
    [] pc \in {"r_len", "b_enter"} -> len1 \o len1
    [] OTHER -> len1 \o len1 \o file

\* C15, the sending end: send_file of a file of N > 0 bytes (1, one buffer,
\* two buffers and one byte) has transmitted, before each read of the file,
\* the header N, N and all the bytes read so far, and when it returns it has
\* transmitted the header followed by exactly the N bytes of the file.
C15_SendFileTransmitsWholeFile ==
  (top = "send_file" /\ sendFile # NoFile /\ sendFile # <<>>) =>
     LET N == Len(sendFile) IN
     /\ pc = "sf_loop" =>
           out = pack_Q(N) \o pack_Q(N) \o Take(sendFile, filePos)
     /\ (pc = "idle" /\ result = "ok") => out = Frame(N, N, sendFile)

\* C15, the receiving end: receive_file never drops or shifts a byte of the
\* stream of a sent file, and when it returns the file it wrote has the
\* declared size and the bytes sent.
C15_ReceiveFileWritesWholeFile ==
  (top = "receive_file" /\ SentBySendFile) =>
     /\ pc # "idle" => HeldFile \o inbuf \o wire = stream
     /\ (pc = "idle" /\ result = "ok") =>
           /\ stream = Frame(Len(file), Len(file), file)
           /\ msgLen = Len(file)

\* C15: the round trip of a file, both ends.
C15_FileRoundTrip ==
  /\ C15_SendFileTransmitsWholeFile
  /\ C15_ReceiveFileWritesWholeFile

\* receive_msg or receive_file is the operation in progress or just ended.
Receiving == top \in {"receive_msg", "receive_file"}

\* C16: when receive_msg or receive_file has read a header whose two length
\* fields match and are zero, its next step ends the call with
\* EmptyResponseError, without reading from the socket, setting a socket
\* timeout or touching the payload or the file; and neither ever returns
\* with an empty payload or an empty file.
C16_ZeroLengthRaisesEmptyResponse ==
  /\ [][(Receiving /\ pc = "r_len" /\ msgLen = 0 /\ pc' # pc) =>
          /\ pc' = "idle"
          /\ result' = "EmptyResponseError"
          /\ inbuf' = inbuf
          /\ settimeouts' = settimeouts
          /\ received' = received
          /\ file' = file]_vars
  /\ []((Receiving /\ pc = "idle" /\ result = "ok") =>
          /\ msgLen > 0
          /\ Len(ReceivedData) = msgLen)

\* receive_file has ended on the frame with the header 0, 0.
C16_Witness_EmptyFile ==
  /\ top = "receive_file"
  /\ pc = "idle"
  /\ result = "EmptyResponseError"
  /\ stream = Frame(0, 0, <<>>)
  /\ len1 = pack_Q(0)
  /\ file = <<>>

\* C17: receive_msg and receive_file called on a connected transport with a
\* timeout that is a number not greater than zero, int or float, get no
\* further than their argument checks: they end with ValueError, and no
\* socket timeout is set and nothing is read.
C17_NonPositiveTimeoutRaisesValueError ==
  (Receiving /\ sock \in connected /\ ~IsNone(timeout) /\ timeout.v <= 0) =>
     /\ \/ pc \in {"r_enter", "f_enter", "l_enter"}
        \/ pc = "idle" /\ result = "ValueError"
     /\ settimeouts = 0

\* The first step of send_msg, send_file, receive_msg or receive_file.
TransferEntry == pc \in {"m_enter", "sf_enter", "r_enter", "f_enter"}

\* C18: send_msg, send_file, receive_msg and receive_file called on a
\* transport that has no established connection end at their first step
\* with ConnectionNotEstablishedError, without I/O (nothing is sent or read,
\* no socket timeout is set, no file is written) and with the transport
\* disconnected; and disconnect on a disconnected transport changes nothing.
C18_NotConnectedRaisesNotEstablished ==
  /\ [][(TransferEntry /\ sock \notin connected /\ pc' # pc) =>
          /\ pc' = "idle"
          /\ result' = "ConnectionNotEstablishedError"
          /\ ~is_connected'
          /\ UNCHANGED <<sock, opened, sockTimeout, inbuf, wire, sent, out,
                         settimeouts, received, file>>
       ]_vars
  /\ [][(pc = "d_enter" /\ ~is_connected /\ pc' # pc) =>
          /\ pc' = "idle"
          /\ result' = "ok"
          /\ UNCHANGED <<sock, opened, connected, sockTimeout, wire, inbuf>>
       ]_vars

\* The free ports of the range the listener was constructed over.
FreePorts == {p \in portRange[1]..portRange[2] : p \notin occupied}

\* C19: once a TcpOslListener is constructed, without an exception, over a
\* port range, is_initialized() is false if every port of the range is in
\* use, and otherwise it is true with the listener bound to the lowest free
\* port of the range; and __create_listener ends with RuntimeError exactly
\* if the listener is not initialized.
C19_ListenerBindsLowestFreePort ==
  lpc \in {"done", "end"} =>
     /\ FreePorts = {} => ~is_initialized(listenerSocket)
     /\ FreePorts # {} =>
          /\ is_initialized(listenerSocket)
          /\ listenerSocket \in FreePorts
          /\ \A p \in FreePorts : listenerSocket <= p
     /\ lpc = "end" =>
          (lres = "RuntimeError" <=> ~is_initialized(listenerSocket))

\* A listener over the single-port range (P, P) with P in use.
C19_Witness_SinglePortOccupied ==
  /\ lpc = "end"
  /\ portRange[1] = portRange[2]
  /\ portRange[1] \in occupied
  /\ listenerSocket = 0
  /\ lres = "RuntimeError"

\* C20: new, open, save and save_as end at once with NotImplementedError in
\* every state of the client; they send no command and open no connection,
\* and they leave the listeners, the timeout, and host and port as they were.
C20_UnsupportedRaiseNotImplemented ==
  /\ [](top \in Unsupported =>
          /\ pc = "idle"
          /\ result = "NotImplementedError"
          /\ sent = 0
          /\ opened = {}
          /\ ~is_connected)
  /\ [][top' \in Unsupported =>
          UNCHANGED <<srvTimeout, hostSet, lExists, callbacks, run, thr,
                      sent, sock, opened, connected>>]_vars

\* save_as has been called on a client that holds a role listener and whose
\* host and port were cleared.
C20_Witness_SaveAs ==
  /\ top = "save_as"
  /\ result = "NotImplementedError"
  /\ lExists["exec_finished_listener"]
  /\ ~hostSet
  /\ ~IsNone(srvTimeout)

(***************************************************************************)
(* TcpOslServer.shutdown and set_timeout on a constructed client: the      *)
(* refresh thread, the registry __listeners and the local process.  A      *)
(* command counts as sent when it is handed to _send_command; its outcome  *)
(* (returned or raised) is recorded with it.  The process handle offers    *)
(* is_running() and terminate(); terminate() ends the process.             *)
(***************************************************************************)
\* The refresh rounds that may begin between two calls of shutdown.
MaxRefresh == 2

\* A listener that __create_listener returned and that was registered, with
\* its accept loop running or not.
Listener(t, listening) ==
  [in |-> TRUE, uid |-> TRUE, timeout |-> t, open |-> TRUE,
   ref |-> listening, alive |-> listening]

\* TcpOslListener.is_listening of a listener of the registry (its socket is
\* never None: __create_listener raises otherwise).
is_listening(l) == l.in /\ l.ref /\ l.alive

\* self.__listeners.values()
ListenersValues == SelectSeq(KeyOrder, LAMBDA k : reg[k].in)

\* An entry of cmdLog.
Cmd(c, k, ok) == [cmd |-> c, key |-> k, ok |-> ok]
CountCmd(c) == Cardinality({i \in 1..Len(cmdLog) : cmdLog[i].cmd = c})

\* What set_timeout may be called with: None, numbers, and a non-number.
Str == [k |-> "str", v |-> 0]
TimeoutInputs == {None, Str} \cup {IntT(n) : n \in 0..MaxTimeout}
                   \cup {FloatT(n) : n \in 0..MaxTimeout}

\* A client after __init__: with a remote server (no process handle) or a
\* local process; the main listener is registered and not listening; the
\* listeners of start and stop are absent, or present with an accept loop
\* that runs or has ended; the refresh thread runs or has died.
InitClient ==
  /\ InitCommon
  /\ RefreshIdle
  /\ LocalIdle
  /\ WaitIdle
  /\ BindIdle
  /\ LoopIdle
  /\ srvTimeout \in SrvTimeouts
  /\ hostSet = TRUE
  /\ timeoutAlias = "unknown"
  /\ procHandle \in BOOLEAN
  /\ procState \in (IF procHandle THEN {"running", "exited"} ELSE {"running"})
  /\ shutdownOnFinished \in (IF procHandle THEN BOOLEAN ELSE {FALSE})
  /\ refreshFlag = TRUE
  /\ refreshThr \in {"waiting", "ended"}
  /\ \E st \in [Keys \ {KeyOrder[1]} -> {"absent", "idle", "listening"}] :
       reg = [k \in Keys |->
               IF k = KeyOrder[1] THEN Listener(srvTimeout, FALSE)
               ELSE IF st[k] = "absent" THEN NoListener
               ELSE Listener(srvTimeout, st[k] = "listening")]
  /\ cmdLog = <<>>
  /\ spc = "idle"
  /\ force = FALSE
  /\ todo = <<>>
  /\ held = {}
  /\ sres = "none"

\* What shutdown and set_timeout leave alone.
clientFrame == <<envVars, ctlVars, connVars, recvVars, cmdStart, response,
                 cause, errmsg, sent, timeoutAlias, sendVars, lExists,
                 callbacks, run, thr, pending, queue, wpc, wop, wfs, wff,
                 status, okStarted, wcall, wres, notes, startCmds, seen,
                 bindVars, loopVars, refreshVars, localVars>>

\* __refresh_listeners_registration, the body of the refresh thread: while
\* the Event is set it waits and, when the counter has reached the interval,
\* sends a refresh command for the listeners; a command that raises ends the
\* thread.
refresh_listeners_registration ==
  /\ \/ /\ refreshThr = "waiting"
        /\ refreshFlag
        /\ CountCmd("refresh") < MaxRefresh
        /\ refreshThr' = "sending"
        /\ UNCHANGED cmdLog
     \/ /\ refreshThr = "waiting"
        /\ ~refreshFlag
        /\ refreshThr' = "ended"
        /\ UNCHANGED cmdLog
     \/ /\ refreshThr = "sending"
        /\ \E ok \in BOOLEAN :
             /\ cmdLog' = Append(cmdLog, Cmd("refresh", "", ok))
             /\ refreshThr' = IF ok THEN "waiting" ELSE "ended"
  /\ UNCHANGED <<procHandle, procState, shutdownOnFinished, refreshFlag, reg,
                 spc, force, todo, held, sres, srvTimeout, hostSet,
                 clientFrame>>

\* shutdown(force) is called.
shutdown(f) ==
  /\ spc = "idle"
  /\ spc' = "stop"
  /\ force' = f
  /\ cmdLog' = <<>>
  /\ held' = {k \in Keys : reg[k].in /\ reg[k].uid}
  /\ sres' = "none"
  /\ UNCHANGED <<procHandle, procState, shutdownOnFinished, refreshFlag,
                 refreshThr, reg, todo, srvTimeout, hostSet, clientFrame>>

\* A thread object exists and is alive.
RefreshAlive == refreshThr \in {"waiting", "sending"}

\* A shutdown that goes on to the listeners without stopping the thread.
stop_listeners_registration_thread_skip ==
  /\ spc = "stop"
  /\ spc' = "loop"
  /\ todo' = ListenersValues
  /\ UNCHANGED <<procHandle, procState, shutdownOnFinished, refreshFlag,
                 refreshThr, reg, cmdLog, force, held, sres, srvTimeout,
                 hostSet, clientFrame>>

\* __stop_listeners_registration_thread: if the thread is alive, clear the
\* Event and join the thread; then the for loop of __finish_all_threads
\* begins.
stop_listeners_registration_thread ==
  /\ \/ /\ spc = "stop"
        /\ RefreshAlive
        /\ refreshFlag' = FALSE
        /\ spc' = "join"
        /\ UNCHANGED todo
     \/ /\ spc = "stop"
        /\ ~RefreshAlive
        /\ spc' = "loop"
        /\ todo' = ListenersValues
        /\ UNCHANGED refreshFlag
     \/ /\ spc = "join"
        /\ ~RefreshAlive
        /\ spc' = "loop"
        /\ todo' = ListenersValues
        /\ UNCHANGED refreshFlag
  /\ UNCHANGED <<procHandle, procState, shutdownOnFinished, refreshThr, reg,
                 cmdLog, force, held, sres, srvTimeout, hostSet, clientFrame>>

\* The for loop of __finish_all_threads, one listener per step: unregister
\* it if it holds a UID (an exception is logged; _unregister_listener clears
\* the UID when the command returned), dispose it if it is listening
\* (dispose closes the socket).  _send_command raises without sending when
\* host or port is None.
finish_all_threads ==
  /\ spc = "loop"
  /\ IF todo = <<>>
     THEN /\ spc' = "cmd"
          /\ UNCHANGED <<reg, cmdLog, todo>>
     ELSE LET k == Head(todo)
              l == reg[k]
          IN  \E ok \in BOOLEAN :
                /\ ~hostSet => ~ok
                /\ cmdLog' = IF l.uid
                             THEN Append(cmdLog, Cmd("unregister", k, ok))
                             ELSE cmdLog
                /\ reg' = [reg EXCEPT ![k] =
                            [l EXCEPT !.uid = l.uid /\ ~ok,
                                      !.open = l.open /\ ~is_listening(l)]]
                /\ todo' = Tail(todo)
                /\ UNCHANGED spc
  /\ UNCHANGED <<procHandle, procState, shutdownOnFinished, refreshFlag,
                 refreshThr, force, held, sres, srvTimeout, hostSet,
                 clientFrame>>

\* A shutdown that never lets the failure of the command through.
propagates_never(f, handle) == FALSE

\* The except clause of shutdown: `if not force or self.__osl_process is
\* None: raise`.
propagates(f, handle) == ~f \/ ~handle

\* shutdown after __finish_all_threads: the shutdown command is sent if
\* there is no process handle or the process does not shut down on finished.
shutdown_command ==
  /\ spc = "cmd"
  /\ IF ~procHandle \/ (procHandle /\ ~shutdownOnFinished)
     THEN \E ok \in BOOLEAN :
            /\ ~hostSet => ~ok
            /\ cmdLog' = Append(cmdLog, Cmd("shutdown", "", ok))
            /\ IF ~ok /\ propagates(force, procHandle)
               THEN spc' = "idle" /\ sres' = "raised"
               ELSE spc' = "force" /\ UNCHANGED sres
     ELSE /\ spc' = "force"
          /\ UNCHANGED <<cmdLog, sres>>
  /\ UNCHANGED <<procHandle, procState, shutdownOnFinished, refreshFlag,
                 refreshThr, reg, force, todo, held, srvTimeout, hostSet,
                 clientFrame>>

\* The end of shutdown: with force and a process handle,
\* _force_shutdown_local_process waits up to _SHUTDOWN_WAIT for the process
\* to exit, terminates it if it still runs, and clears handle, host and
\* port.
force_shutdown_local_process ==
  /\ spc = "force"
  /\ IF force /\ procHandle
     THEN /\ \E exits \in BOOLEAN :
               procState' = IF procState # "running" THEN procState
                            ELSE IF exits THEN "exited" ELSE "terminated"
          /\ procHandle' = FALSE
          /\ hostSet' = FALSE
     ELSE UNCHANGED <<procState, procHandle, hostSet>>
  /\ spc' = "idle"
  /\ sres' = "returned"
  /\ UNCHANGED <<shutdownOnFinished, refreshFlag, refreshThr, reg, cmdLog,
                 force, todo, held, srvTimeout, clientFrame>>

\* A set_timeout that sets the timeout of the client only.
set_timeout_client_only(t) ==
  /\ spc = "idle"
  /\ IF IsNone(t) \/ (t.k \in {"int", "float"} /\ t.v > 0)
     THEN /\ srvTimeout' = t
          /\ sres' = "returned"
     ELSE /\ sres' = IF t.k \in {"int", "float"} THEN "ValueError"
                     ELSE "TypeError"
          /\ UNCHANGED srvTimeout
  /\ UNCHANGED <<procHandle, procState, shutdownOnFinished, refreshFlag,
                 refreshThr, reg, cmdLog, spc, force, todo, held, hostSet,
                 clientFrame>>

\* set_timeout(timeout): the timeout is checked, set, and then assigned to
\* every listener of the registry.
set_timeout(t) ==
  /\ spc = "idle"
  /\ IF IsNone(t) \/ (t.k \in {"int", "float"} /\ t.v > 0)
     THEN /\ srvTimeout' = t
          /\ reg' = [k \in Keys |-> IF reg[k].in
                                    THEN [reg[k] EXCEPT !.timeout = t]
                                    ELSE reg[k]]
          /\ sres' = "returned"
     ELSE /\ sres' = IF t.k \in {"int", "float"} THEN "ValueError"
                     ELSE "TypeError"
          /\ UNCHANGED <<srvTimeout, reg>>
  /\ UNCHANGED <<procHandle, procState, shutdownOnFinished, refreshFlag,
                 refreshThr, cmdLog, spc, force, todo, held, hostSet,
                 clientFrame>>

\* __create_exec_started_listener and __create_exec_finished_listener: the
\* listener is created with the client's timeout, registered, and put into
\* the registry.
create_exec_listener(k) ==
  /\ spc = "idle"
  /\ hostSet
  /\ ~reg[k].in
  /\ reg' = [reg EXCEPT ![k] = Listener(srvTimeout, FALSE)]
  /\ UNCHANGED <<procHandle, procState, shutdownOnFinished, refreshFlag,
                 refreshThr, cmdLog, spc, force, todo, held, sres,
                 srvTimeout, hostSet, clientFrame>>

\* shutdown on its own: the timeouts play no part in it.
InitShutdown == InitClient /\ srvTimeout = None

NextShutdown ==
  \/ refresh_listeners_registration
  \/ \E f \in BOOLEAN : shutdown(f)
  \/ stop_listeners_registration_thread
  \/ finish_all_threads
  \/ shutdown_command
  \/ force_shutdown_local_process

SpecShutdown == InitShutdown /\ [][NextShutdown]_vars

\* set_timeout and the creation of listeners on their own.
NextTimeout ==
  \/ \E t \in TimeoutInputs : set_timeout(t)
  \/ \E k \in Keys \ {KeyOrder[1]} : create_exec_listener(k)

SpecTimeout == InitClient /\ [][NextTimeout]_vars

(***************************************************************************)
(* Properties of shutdown and set_timeout                                  *)
(***************************************************************************)
\* The call of shutdown in progress ends in this step.
ShutdownEnds == spc # "idle" /\ spc' = "idle"

\* C21: in shutdown, when the shutdown command is sent the refresh loop has
\* stopped and an unregister command has been sent before it for every
\* listener that held a UID when shutdown began; the shutdown command is
\* sent exactly when there is no process handle or the local process does
\* not shut down on finished, and at most once per call; no refresh command
\* is sent after an unregister command.
C21_ShutdownCommandOrder ==
  [][ /\ \A j \in 1..Len(cmdLog') :
           cmdLog'[j].cmd = "shutdown" =>
             /\ ~RefreshAlive'
             /\ \A k \in held' : \E i \in 1..(j - 1) :
                  cmdLog'[i].cmd = "unregister" /\ cmdLog'[i].key = k
      /\ (spc = "cmd" /\ spc' # "cmd") =>
           (CountCmd("shutdown")' = 1
              <=> (~procHandle \/ ~shutdownOnFinished))
      /\ CountCmd("shutdown")' <= 1
      /\ \A i, j \in 1..Len(cmdLog') :
           (i < j /\ cmdLog'[i].cmd = "unregister")
             => cmdLog'[j].cmd # "refresh"
    ]_vars

\* A shutdown of a client with a local process sent its shutdown command
\* after a refresh round and the unregister commands of two listeners.
C21_Witness_RefreshUnregisterShutdown ==
  /\ spc = "force"
  /\ procHandle
  /\ CountCmd("shutdown") = 1
  /\ CountCmd("unregister") >= 2
  /\ CountCmd("refresh") >= 1

\* The shutdown command of the call in progress was sent and raised.
ShutdownCommandFailed ==
  \E i \in 1..Len(cmdLog) : cmdLog[i].cmd = "shutdown" /\ ~cmdLog[i].ok

\* C22: shutdown raises exactly when its shutdown command failed and force
\* is false or there is no process handle (so a failed unregister command
\* never makes it raise); with force true and a process handle it returns,
\* and then the process is not running (it exited in the grace period or
\* was terminated) and the process handle, host and port are cleared.
C22_ShutdownPropagation ==
  [][ ShutdownEnds =>
        /\ sres' \in {"raised", "returned"}
        /\ sres' = "raised"
             <=> (ShutdownCommandFailed' /\ (~force \/ ~procHandle))
        /\ (force /\ procHandle) =>
             /\ sres' = "returned"
             /\ procState' \in {"exited", "terminated"}
             /\ procState = "running" \/ procState' = procState
             /\ ~procHandle'
             /\ ~hostSet'
    ]_vars

\* A forced shutdown of a local process returned although an unregister
\* command and the shutdown command had failed; the process was terminated.
C22_Witness_ForcedAfterFailures ==
  /\ spc = "idle"
  /\ sres = "returned"
  /\ force
  /\ ~procHandle
  /\ ~hostSet
  /\ procState = "terminated"
  /\ ShutdownCommandFailed
  /\ \E i \in 1..Len(cmdLog) : cmdLog[i].cmd = "unregister" /\ ~cmdLog[i].ok

\* A shutdown without force raised because its shutdown command failed.
C22_Witness_Raised ==
  /\ spc = "idle"
  /\ sres = "raised"
  /\ ~force
  /\ ShutdownCommandFailed

\* C23: when shutdown returns, the refresh thread has ended, no accept loop
\* of a listener of the registry is running, and the socket of every
\* listener of the registry, listening or not, is closed.
C23_ShutdownLeavesNothingOpen ==
  [][ (ShutdownEnds /\ sres' = "returned") =>
        /\ ~RefreshAlive'
        /\ \A k \in Keys : reg'[k].in =>
             /\ ~reg'[k].alive
             /\ ~reg'[k].open
    ]_vars

\* The part of C23 that holds: when shutdown returns the refresh thread has
\* ended and the socket of every listener that was listening is closed.
C23_ListeningSocketsClosed ==
  [][ (ShutdownEnds /\ sres' = "returned") =>
        /\ ~RefreshAlive'
        /\ \A k \in Keys : is_listening(reg'[k]) => ~reg'[k].open
    ]_vars

\* set_timeout accepts t.
Accepted(t) == IsNone(t) \/ (t.k \in {"int", "float"} /\ t.v > 0)

\* C24: set_timeout(t) with t None or a number greater than zero sets the
\* timeout of the client and of every listener of the registry to t; with a
\* number not greater than zero it raises ValueError and with a non-number
\* TypeError, and then the timeout of the client and of every listener is
\* unchanged.  After every step, that of a creation of a listener included,
\* the timeout of every listener of the registry is the client's timeout.
C24_SetTimeoutReachesListeners ==
  [][ /\ \A t \in TimeoutInputs : set_timeout(t) =>
           IF Accepted(t)
           THEN /\ sres' = "returned"
                /\ srvTimeout' = t
                /\ \A k \in Keys : reg'[k].in => reg'[k].timeout = t
           ELSE /\ sres' = IF t = Str THEN "TypeError" ELSE "ValueError"
                /\ srvTimeout' = srvTimeout
                /\ \A k \in Keys : reg'[k].timeout = reg[k].timeout
      /\ \A k \in Keys : reg'[k].in => reg'[k].timeout = srvTimeout'
    ]_vars

\* set_timeout(1.0) set a timeout that no client is constructed with, and
\* the three listeners of the registry hold it.
C24_Witness_ThreeListenersFollow ==
  /\ sres = "returned"
  /\ srvTimeout = FloatT(1)
  /\ \A k \in Keys : reg[k].in /\ reg[k].timeout = FloatT(1)

(***************************************************************************)
(* One TcpOslListener with its accept loop (__listen, run by the thread    *)
(* that start_listening starts), its callbacks, and the calls of           *)
(* stop_listening, dispose and cleanup_notifications from the caller's     *)
(* thread.  A connection is what a peer does on it: it sends a message     *)
(* with a JSON payload ("json"), a message whose payload is not JSON       *)
(* ("notjson"), nothing ("silent"), or a header and then less than the     *)
(* payload ("partial").  Time is not counted: a wait with a finite timeout *)
(* can run out, a wait without one lasts until what it waits for happens.  *)
(* lsLog records the connections ("conn"), the messages read ("read"), the *)
(* acknowledgements sent ("ack", or "ack_failed" where send_msg raised),   *)
(* the callbacks invoked ("call", with the index of the callback) and the  *)
(* disconnects ("close"), each with the thread that did it.                *)
(***************************************************************************)
\* The connections that peers make.
MaxConns == 2
\* The length of the callback list.
MaxCbs == 2

ConnKinds == {"json", "notjson", "silent", "partial"}
\* What a callback does: nothing to the listener; what
\* __terminate_listener_thread does on a notification it reacts to
\* (stop_listening, clear_callbacks); or it raises.
CbKinds == {"plain", "terminate", "raise"}
CallbackLists == UNION {[1..n -> CbKinds] : n \in 0..MaxCbs}

Ev(e, c, by) == [ev |-> e, c |-> c, by |-> by]
CountEv(e) == Cardinality({i \in 1..Len(lsLog) : lsLog[i].ev = e})

\* A thread runs __listen.
ThreadAlive == lsPc \notin {"none", "ended"}
\* TcpOslListener.is_listening: the socket is not None (it never is again
\* after __init__ bound it), __thread is not None and the thread is alive.
ListenerIsListening == lsRef /\ ThreadAlive

\* An initialized listener that was not started, with any callback list,
\* under either interpreter.
InitListen ==
  /\ InitCommon
  /\ WaitIdle
  /\ BindIdle
  /\ ClientIdle
  /\ srvTimeout = None
  /\ hostSet = TRUE
  /\ timeoutAlias \in {"yes", "no"}
  /\ lsOpen = TRUE
  /\ lsRun = FALSE
  /\ lsRef = FALSE
  /\ lsPc = "none"
  /\ lsTimeout = None
  /\ lsExpired = FALSE
  /\ lsConns = <<>>
  /\ lsCur = NoConn
  /\ lsCbs \in CallbackLists
  /\ lsLog = <<>>
  /\ kpc = "idle"
  /\ kCur = NoConn

\* What the listener leaves alone.
loopFrame == <<envVars, ctlVars, connVars, recvVars, cmdVars, sendVars,
               lExists, callbacks, run, thr, pending, queue, wpc, wop, wfs,
               wff, status, okStarted, wcall, wres, notes, startCmds, seen,
               bindVars, clientVars, refreshVars, localVars>>

\* A peer connects to the listener socket.
peer_connects(kind) ==
  /\ lsOpen
  /\ CountEv("conn") < MaxConns
  /\ LET id == CountEv("conn") + 1
     IN  /\ lsConns' = Append(lsConns, [id |-> id, kind |-> kind])
         /\ lsLog' = Append(lsLog, Ev("conn", id, "peer"))
  /\ UNCHANGED <<lsOpen, lsRun, lsRef, lsPc, lsTimeout, lsExpired, lsCur,
                 lsCbs, kpc, kCur, loopFrame>>

\* start_listening(timeout): a thread is created for __listen, the flag is
\* set, the thread is started; __listen takes its timeout from the argument
\* or from the listener (lines 713-715).
start_listening(t) ==
  /\ ~ThreadAlive
  /\ kpc = "idle"
  /\ lsRef' = TRUE
  /\ lsRun' = TRUE
  /\ lsPc' = "loop"
  /\ lsTimeout' = t
  /\ lsExpired' = FALSE
  /\ UNCHANGED <<lsOpen, lsConns, lsCur, lsCbs, lsLog, kpc, kCur, loopFrame>>

\* stop_listening(), called from the caller's thread.
listener_stop_listening ==
  /\ ListenerIsListening
  /\ lsRun' = FALSE
  /\ lsRef' = FALSE
  /\ UNCHANGED <<lsOpen, lsPc, lsTimeout, lsExpired, lsConns, lsCur, lsCbs,
                 lsLog, kpc, kCur, loopFrame>>

\* dispose(): the listener socket is closed; connections that were pending
\* are gone.
listener_dispose ==
  /\ lsOpen
  /\ lsOpen' = FALSE
  /\ lsConns' = <<>>
  /\ UNCHANGED <<lsRun, lsRef, lsPc, lsTimeout, lsExpired, lsCur, lsCbs,
                 lsLog, kpc, kCur, loopFrame>>

\* __listen at `while self.__run_listening_thread` and at the settimeout of
\* line 720: the loop ends when the flag is cleared; _get_current_timeout
\* raises TimeoutError when the budget has elapsed, which the first except
\* clause answers with stop_listening and break; settimeout on a closed
\* socket raises an OSError, which the second except clause logs: the loop
\* goes round, and a finite budget runs out meanwhile.
listen_loop ==
  /\ lsPc = "loop"
  /\ IF ~lsRun
     THEN /\ lsPc' = "ended"
          /\ UNCHANGED <<lsRun, lsRef, lsExpired>>
     ELSE IF lsExpired
     THEN /\ lsPc' = "ended"
          /\ lsRun' = FALSE
          /\ lsRef' = FALSE
          /\ UNCHANGED lsExpired
     ELSE IF ~lsOpen
     THEN /\ lsExpired' \in (IF IsNone(lsTimeout) THEN {FALSE}
                              ELSE BOOLEAN)
          /\ UNCHANGED <<lsPc, lsRun, lsRef>>
     ELSE /\ lsPc' = "accept"
          /\ UNCHANGED <<lsRun, lsRef, lsExpired>>
  /\ UNCHANGED <<lsOpen, lsTimeout, lsConns, lsCur, lsCbs, lsLog, kpc, kCur,
                 loopFrame>>

\* __listen in accept(): a pending connection is accepted; or the wait runs
\* out and accept raises socket.timeout, which the first except clause
\* (`except TimeoutError or socket.timeout`, that is `except TimeoutError`)
\* catches where socket.timeout is TimeoutError and the second one (`except
\* Exception`) where it is not; or the socket was closed under the wait and
\* accept raises an OSError.
listen_accept_wait ==
  /\ lsPc = "accept"
  /\ \/ /\ lsOpen
        /\ lsConns # <<>>
        /\ lsCur' = Head(lsConns)
        /\ lsConns' = Tail(lsConns)
        /\ lsPc' = "recv"
        /\ UNCHANGED <<lsRun, lsRef, lsExpired>>
     \/ /\ lsConns = <<>>
        /\ ~IsNone(lsTimeout)
        /\ lsExpired' = TRUE
        /\ IF IsTimeoutError("socket.timeout", timeoutAlias = "yes")
           THEN lsPc' = "ended" /\ lsRun' = FALSE /\ lsRef' = FALSE
           ELSE lsPc' = "loop" /\ UNCHANGED <<lsRun, lsRef>>
        /\ UNCHANGED <<lsCur, lsConns>>
     \/ /\ ~lsOpen
        /\ lsPc' = "loop"
        /\ UNCHANGED <<lsRun, lsRef, lsExpired, lsCur, lsConns>>
  /\ UNCHANGED <<lsOpen, lsTimeout, lsCbs, lsLog, kpc, kCur, loopFrame>>

\* The for loop of __execute_callbacks from index i on: the indices of the
\* callbacks it invokes, the list it leaves, whether stop_listening was
\* called, whether a callback raised.  The loop iterates over the list
\* object itself: once the list was cleared no element is left to visit.
RECURSIVE execute_callbacks_from(_, _)
execute_callbacks_from(cbs, i) ==
  IF i > Len(cbs)
  THEN [calls |-> <<>>, cbs |-> cbs, stop |-> FALSE, raised |-> FALSE]
  ELSE IF cbs[i] = "raise"
  THEN [calls |-> <<i>>, cbs |-> cbs, stop |-> FALSE, raised |-> TRUE]
  ELSE IF cbs[i] = "terminate"
  THEN LET rest == execute_callbacks_from(<<>>, i + 1)
       IN  [calls |-> <<i>> \o rest.calls, cbs |-> rest.cbs, stop |-> TRUE,
            raised |-> rest.raised]
  ELSE LET rest == execute_callbacks_from(cbs, i + 1)
       IN  [calls |-> <<i>> \o rest.calls, cbs |-> rest.cbs,
            stop |-> rest.stop, raised |-> rest.raised]

\* How receive_msg(timeout) ends on a connection of the kind: with the
\* message, with the TimeoutError of _recv_response_length (line 420), with
\* the socket.timeout of recv in _receive_bytes (line 467); without a
\* timeout it does not end on a peer that does not send.
ReceiveOutcome(kind, t) ==
  CASE kind \in {"json", "notjson"} -> "message"
    [] kind = "silent"  -> IF IsNone(t) THEN "blocked" ELSE "TimeoutError"
    [] kind = "partial" -> IF IsNone(t) THEN "blocked" ELSE "socket.timeout"

\* The events of the calls to the callbacks with the indices in idx.
CallEvents(idx) == [j \in 1..Len(idx) |-> Ev("call", idx[j], "listen")]

\* The try block of __listen after receive_msg returned a message (lines
\* 727-729): json.loads(message), client.send_msg(""),
\* __execute_callbacks(response); an exception of any of them leaves the
\* block.  What it records, the callback list it leaves, and whether
\* stop_listening was called.
listen_body(kind, ackOk, cbs) ==
  IF kind = "notjson"
  THEN [log |-> <<Ev("read", 0, "listen")>>, cbs |-> cbs, stop |-> FALSE]
  ELSE IF ~ackOk
  THEN [log |-> <<Ev("read", 0, "listen"), Ev("ack_failed", 0, "listen")>>,
        cbs |-> cbs, stop |-> FALSE]
  ELSE LET x == execute_callbacks_from(cbs, 1)
       IN  [log |-> <<Ev("read", 0, "listen"), Ev("ack", 0, "listen")>>
                      \o CallEvents(x.calls),
            cbs |-> x.cbs, stop |-> x.stop]

\* The events of log, made on the connection id where they are about a
\* connection.
OnConn(log, id) ==
  [j \in 1..Len(log) |->
     IF log[j].ev = "call" THEN log[j] ELSE [log[j] EXCEPT !.c = id]]

\* __listen from receive_msg to the end of the iteration: the message is
\* received, decoded, acknowledged and dispatched; the exceptions go to the
\* two except clauses; the finally clause disconnects the client.
listen_handle ==
  /\ lsPc = "recv"
  /\ LET outcome == ReceiveOutcome(lsCur.kind, lsTimeout)
         closeEv == <<Ev("close", lsCur.id, "listen")>>
     IN  \/ /\ outcome = "message"
            /\ \E ackOk \in BOOLEAN :
                 LET b == listen_body(lsCur.kind, ackOk, lsCbs)
                 IN  /\ lsLog' = lsLog \o OnConn(b.log, lsCur.id) \o closeEv
                     /\ lsCbs' = b.cbs
                     /\ lsRun' = (lsRun /\ ~b.stop)
                     /\ lsRef' = (lsRef /\ ~b.stop)
            /\ lsPc' = "loop"
            /\ UNCHANGED lsExpired
         \/ /\ outcome \in {"TimeoutError", "socket.timeout"}
            /\ lsLog' = lsLog \o closeEv
            /\ lsExpired' = TRUE
            /\ IF IsTimeoutError(outcome, timeoutAlias = "yes")
               THEN lsPc' = "ended" /\ lsRun' = FALSE /\ lsRef' = FALSE
               ELSE lsPc' = "loop" /\ UNCHANGED <<lsRun, lsRef>>
            /\ UNCHANGED lsCbs
  /\ lsCur' = NoConn
  /\ UNCHANGED <<lsOpen, lsTimeout, lsConns, kpc, kCur, loopFrame>>

\* cleanup_notifications(timeout) is called, in the caller's thread, on a
\* listener whose accept loop is not running.
cleanup_notifications ==
  /\ kpc = "idle"
  /\ ~ThreadAlive
  /\ kpc' = "accept"
  /\ UNCHANGED <<lsOpen, lsRun, lsRef, lsPc, lsTimeout, lsExpired, lsConns,
                 lsCur, lsCbs, lsLog, kCur, loopFrame>>

\* cleanup_notifications in accept(): a pending connection is accepted; or
\* the wait of `timeout` runs out and `except socket.timeout` breaks; on a
\* closed socket settimeout raises an OSError, which is logged, and the loop
\* goes on.
cleanup_accept ==
  /\ kpc = "accept"
  /\ IF ~lsOpen
     THEN UNCHANGED <<lsConns, kCur, kpc>>
     ELSE IF lsConns # <<>>
     THEN /\ kCur' = Head(lsConns)
          /\ lsConns' = Tail(lsConns)
          /\ kpc' = "recv"
     ELSE /\ kpc' = "idle"
          /\ UNCHANGED <<lsConns, kCur>>
  /\ UNCHANGED <<lsOpen, lsRun, lsRef, lsPc, lsTimeout, lsExpired, lsCur,
                 lsCbs, lsLog, loopFrame>>

\* cleanup_notifications from receive_msg(timeout) to the end of the
\* iteration: the message is received, decoded and acknowledged; `except
\* socket.timeout` breaks, `except Exception` logs; the finally clause
\* disconnects the client.  The timeout of cleanup_notifications is a
\* float (0.2 by default).
cleanup_handle ==
  /\ kpc = "recv"
  /\ LET outcome == ReceiveOutcome(kCur.kind, FloatT(1))
         closeEv == <<Ev("close", kCur.id, "cleanup")>>
         readEv == <<Ev("read", kCur.id, "cleanup")>>
         ackEv == <<Ev("ack", kCur.id, "cleanup")>>
     IN  \/ /\ outcome = "message"
            /\ lsLog' = lsLog \o readEv
                          \o (IF kCur.kind = "json" THEN ackEv ELSE <<>>)
                          \o closeEv
            /\ kpc' = "accept"
         \/ /\ outcome \in {"TimeoutError", "socket.timeout"}
            /\ lsLog' = lsLog \o closeEv
            /\ kpc' = IF outcome = "socket.timeout" \/ timeoutAlias = "yes"
                      THEN "idle" ELSE "accept"
  /\ kCur' = NoConn
  /\ UNCHANGED <<lsOpen, lsRun, lsRef, lsPc, lsTimeout, lsExpired, lsConns,
                 lsCur, lsCbs, loopFrame>>

ListenThread ==
  \/ listen_loop
  \/ listen_accept_wait
  \/ listen_handle

NextListen ==
  \/ \E kind \in ConnKinds : peer_connects(kind)
  \/ \E t \in {None, FloatT(MaxTimeout)} : start_listening(t)
  \/ listener_stop_listening
  \/ listener_dispose
  \/ ListenThread
  \/ cleanup_notifications
  \/ cleanup_accept
  \/ cleanup_handle

SpecListen == InitListen /\ [][NextListen]_vars

\* The thread that runs __listen is scheduled, and so is the caller in
\* cleanup_notifications; peers and the calls of the other methods are not
\* bound to happen.
SpecListenFair ==
  /\ SpecListen
  /\ WF_vars(ListenThread)
  /\ WF_vars(cleanup_accept \/ cleanup_handle)

(***************************************************************************)
(* Properties of the listener                                              *)
(***************************************************************************)
\* What this step has added to lsLog.
Added == SubSeq(lsLog', Len(lsLog) + 1, Len(lsLog'))
IsCall(e) == e.ev = "call"
IsAck(e) == e.ev = "ack"

\* This step of the accept loop read a message, decoded it, acknowledged it
\* and began to dispatch it.
Dispatches ==
  /\ lsPc = "recv"
  /\ lsPc' # "recv"
  /\ SelectSeq(Added, IsAck) # <<>>

\* C25: for each notification the accept loop decodes, every callback that
\* is in the callback list when the dispatch begins is invoked exactly once,
\* in the order of registration, by the listener's thread; also when an
\* earlier callback of the dispatch stops the listener or clears the list.
\* Stated for callbacks that do not raise.
C25_EveryCallbackInvokedOnce ==
  [][ (Dispatches /\ \A i \in 1..Len(lsCbs) : lsCbs[i] # "raise") =>
        SelectSeq(Added, IsCall)
          = [i \in 1..Len(lsCbs) |-> Ev("call", i, "listen")]
    ]_vars

\* The part of C25 that holds: the callbacks are invoked in the order of
\* registration, each at most once, by the listener's thread, and all of
\* them if none of them clears the list or raises.
C25_CallbacksInOrderUntilCleared ==
  [][ Dispatches =>
        LET done == SelectSeq(Added, IsCall)
        IN  /\ Len(done) <= Len(lsCbs)
            /\ \A j \in 1..Len(done) : done[j] = Ev("call", j, "listen")
            /\ (\A i \in 1..Len(lsCbs) : lsCbs[i] = "plain")
                 => Len(done) = Len(lsCbs)
    ]_vars

\* The accept loop is between two iterations or has ended.
BetweenIterations == lsPc \in {"none", "loop", "accept", "ended"}

\* C26: in each iteration of the accept loop, once a message has been read
\* from the accepted connection an acknowledgement is sent before the
\* payload is decoded and before a callback runs: every message the accept
\* loop has read, one whose payload is not JSON included, is followed by
\* an acknowledgement on its connection (sent, or tried and failed in
\* send_msg), before any callback and before the disconnect.
C26_AckForEveryMessageRead ==
  \A i \in 1..Len(lsLog) :
    (lsLog[i].ev = "read" /\ lsLog[i].by = "listen") =>
      /\ i < Len(lsLog)
      /\ lsLog[i + 1].ev \in {"ack", "ack_failed"}
      /\ lsLog[i + 1].c = lsLog[i].c

\* The part of C26 that holds: between two iterations the accept loop holds
\* no connection: every connection it accepted was disconnected, on every
\* path; and no callback runs before the acknowledgement of its message.
C26_AcceptedConnectionClosed ==
  /\ BetweenIterations => lsCur = NoConn
  /\ \A i \in 1..Len(lsLog) :
       (lsLog[i].ev = "close" /\ lsLog[i].by = "listen") =>
         Cardinality({j \in 1..Len(lsLog) :
                        lsLog[j].ev = "close"
                        /\ lsLog[j].c = lsLog[i].c}) = 1
  /\ \A i \in 2..Len(lsLog) :
       lsLog[i].ev = "call" => lsLog[i - 1].ev \in {"ack", "call"}

\* The accept loop ends in this step.
LoopEnds == ThreadAlive /\ lsPc' = "ended"

\* C27: the accept loop ends only because the stop flag was cleared (it
\* ends at the test of the while loop) or because the budget ran out while
\* it waited for a connection (at settimeout or in accept); an error while
\* it receives from an accepted peer, one that connects and sends nothing
\* in time included, while it decodes, acknowledges or runs a callback
\* ends that iteration only, and the loop goes on.
C27_LoopEndsOnlyOnStopOrDeadline ==
  [][ /\ LoopEnds => lsPc \in {"loop", "accept"}
      /\ (lsPc = "recv" /\ lsPc' # "recv") => lsPc' = "loop"
    ]_vars

\* The part of C27 that holds: an error while decoding, acknowledging or
\* running a callback ends the iteration only: after a message was received
\* the loop is back at its test.
C27_ErrorAfterReceiveEndsIteration ==
  [][ (lsPc = "recv" /\ lsPc' # "recv"
         /\ ReceiveOutcome(lsCur.kind, lsTimeout) = "message")
        => lsPc' = "loop"
    ]_vars

\* stop_listening has been called on a Listener whose accept loop is
\* running.
StopRequested == ThreadAlive /\ ~lsRun

\* No connection is pending at the listener or held by its accept loop.
NoConnection == lsConns = <<>> /\ lsCur = NoConn

\* C28: after stop_listening is called on a listening Listener, the thread
\* of its accept loop eventually ends, with a finite timeout and without
\* one; stated for the case that no connection ever arrives.
C28_StopEventuallyEndsLoop ==
  []NoConnection => (StopRequested ~> ~ThreadAlive)

\* The part of C28 that holds: with a finite timeout the thread ends once
\* stop_listening was called.
C28_StopEndsLoopWithFiniteTimeout ==
  (StopRequested /\ ~IsNone(lsTimeout)) ~> ~ThreadAlive

\* C29: after dispose the socket of the Listener is closed and stays
\* closed, and its accept loop, if one was running, stops running and
\* is_listening() becomes false.
C29_DisposeTearsListenerDown ==
  ~lsOpen ~> (~lsOpen /\ ~ThreadAlive /\ ~ListenerIsListening)

\* C29 read as a statement about the state right after dispose: that fails
\* too, since dispose does not wait for the thread.
C29_DisposedListenerIsNotListening ==
  ~lsOpen => (~ThreadAlive /\ ~ListenerIsListening)

\* The part of C29 that holds: after dispose the socket stays closed, no
\* connection is accepted and no callback is invoked.
C29_NothingDispatchedAfterDispose ==
  [][ ~lsOpen =>
        /\ ~lsOpen'
        /\ (lsPc # "recv" /\ kpc # "recv") => lsLog' = lsLog
    ]_vars

\* The call of cleanup_notifications in progress returns in this step.
CleanupReturns == kpc # "idle" /\ kpc' = "idle"

\* C30: cleanup_notifications accepts and discards every connection that is
\* pending at the listener and returns as soon as an accept wait passes
\* with none pending: when it returns no connection is pending; an error on
\* one drained connection does not end the drain; it invokes no callback
\* and leaves the callback list and the running flag alone.
C30_CleanupDrainsEveryPendingConnection ==
  [][ /\ CleanupReturns => lsConns = <<>>
      /\ kpc # "idle" =>
           /\ lsCbs' = lsCbs
           /\ lsRun' = lsRun
           /\ SelectSeq(Added, IsCall) = <<>>
    ]_vars

\* The part of C30 that holds: cleanup_notifications invokes no callback
\* and leaves the callback list and the running flag alone, it disconnects
\* every connection it accepted, it acknowledges every message it decoded,
\* and it returns when an accept wait passes with no connection pending.
C30_CleanupLeavesListenerAlone ==
  [][ /\ kpc # "idle" =>
           /\ lsCbs' = lsCbs
           /\ lsRun' = lsRun
           /\ SelectSeq(Added, IsCall) = <<>>
      /\ (cleanup_accept /\ lsOpen /\ lsConns = <<>>) => kpc' = "idle"
      /\ cleanup_handle =>
           /\ kCur' = NoConn
           /\ Added[Len(Added)] = Ev("close", kCur.id, "cleanup")
           /\ kCur.kind = "json" => SelectSeq(Added, IsAck) # <<>>
    ]_vars

(***************************************************************************)
(* The waiting calls and their role listeners: start, stop and stop_gently *)
(* from the command they send to their return.                             *)
(***************************************************************************)
\* The call in progress has wired the listener r: the listener is stored
\* (it is stored once the server has registered it), the call has drained
\* it and started an accept loop on it, and the callback of the call is
\* attached or a notification has been handed to the callbacks since.
WiredByCall(r) ==
  /\ lExists[r]
  /\ thr[<<r, wcall>>].pc # "none"
  /\ \/ \E i \in 1..Len(callbacks[r]) : callbacks[r][i] = wcall
     \/ seen[r] # ""

\* C31: when start, stop or stop_gently with waiting requested is about to
\* send its command, every role listener of the call exists, has been
\* drained, carries the callback of the call and has its accept loop
\* started; nothing has been sent before that, so the callback precedes
\* every notification the command causes.
C31_CommandAfterWiring ==
  wpc = "command" =>
    /\ startCmds = 0
    /\ (wop = "start" /\ (wfs \/ wff)) => WiredByCall(StartedR)
    /\ wff => WiredByCall(FinishedR)

\* start(wait_for_finished=True) is about to send START with both role
\* listeners accepting and the callbacks of the call attached.
C31_Witness_BothWiredBeforeCommand ==
  /\ wpc = "command"
  /\ wop = "start"
  /\ wff
  /\ \A r \in Roles :
       /\ thr[<<r, wcall>>].pc = "accept"
       /\ callbacks[r] # <<>>
       /\ callbacks[r][Len(callbacks[r])] = wcall
       /\ pending[r] = <<>>

\* The call in progress completes with this step, by returning or raising.
CallCompletes == wpc # "idle" /\ wpc' = "idle"

\* C32: when start, stop or stop_gently completes, by returning or by
\* raising, every role listener the call wired has stopped listening and
\* carries no callback; a role listener never carries more than one
\* callback.
C32_CompletedCallLeavesNoCallback ==
  [][ /\ CallCompletes =>
           \A r \in Roles :
             thr[<<r, wcall>>].pc # "none" =>
               /\ ~run'[r]
               /\ callbacks'[r] = <<>>
      /\ \A r \in Roles : Len(callbacks'[r]) <= 1
    ]_vars

\* start(wait_for_finished=True) has observed the project as PROCESSING and
\* created the finished listener (no role listener exists before the first
\* call), and the run has finished since: the server has pushed the
\* finished notification, which waits at the listener's socket while the
\* call stands before cleanup_notifications.
FinishedBeforeCleanup ==
  /\ wcall = 1
  /\ wop = "start"
  /\ wff
  /\ status = "PROCESSING"
  /\ wpc = "wire_f"
  /\ IsNone(srvTimeout)
  /\ Len(pending[FinishedR]) = 1
  /\ pending[FinishedR][1] \in Targets(FinishedR)
  /\ notes = 1

\* C33: the finished notification of the current run is never discarded by
\* the cleanup of stale notifications: once start(wait_for_finished=True)
\* has observed PROCESSING, it returns if the run finishes afterwards, also
\* when it finishes between the creation of the listener and the cleanup.
\* The run finishes once: the server pushes one notification.
C33_FinishedOfCurrentRunEndsStart ==
  [](notes <= 1) => (FinishedBeforeCleanup ~> wpc = "idle")

(***************************************************************************)
(* The refresh thread step by step: the while loop of                      *)
(* __refresh_listeners_registration with its counter, the for loop over    *)
(* self.__listeners.values(), and the calling thread, which inserts        *)
(* listeners into the registry and clears the Event.  Time is counted in   *)
(* units of check_for_refresh, the 0.5 s the loop sleeps in each round.    *)
(***************************************************************************)
MaxPasses == 2

\* self.__listeners_refresh_interval
listeners_refresh_interval == 20
\* 1 / check_for_refresh: the rounds of the loop that add 1 to the counter
TicksPerUnit == 2
\* the timeout of __register_listener, in ms
REGISTRATION_TIMEOUT == 60000
\* the lease of a registration in units of check_for_refresh, a second
\* being 1000 ms
LeaseTicks == (REGISTRATION_TIMEOUT \div 1000) * TicksPerUnit

\* `counter >= self.__listeners_refresh_interval` of a loop that counts
\* every round as one.
RefreshDue_counting_rounds(c) == c >= listeners_refresh_interval

\* `counter >= self.__listeners_refresh_interval`, the counter c being kept
\* in units of check_for_refresh.
RefreshDue(c) == c >= listeners_refresh_interval * TicksPerUnit

\* The client after __init__ with a remote server: the main listener is
\* registered and the refresh thread has just been started; the listeners
\* of start and stop are absent or were created before.
InitRefresh ==
  /\ InitCommon
  /\ LocalIdle
  /\ WaitIdle
  /\ BindIdle
  /\ LoopIdle
  /\ srvTimeout = None
  /\ hostSet = TRUE
  /\ timeoutAlias = "unknown"
  /\ procHandle = FALSE
  /\ procState = "running"
  /\ shutdownOnFinished = FALSE
  /\ refreshFlag = TRUE
  /\ refreshThr = "waiting"
  /\ \E present \in SUBSET (Keys \ {KeyOrder[1]}) :
       reg = [k \in Keys |->
               IF k = KeyOrder[1] \/ k \in present
               THEN Listener(srvTimeout, FALSE) ELSE NoListener]
  /\ cmdLog = <<>>
  /\ spc = "idle"
  /\ force = FALSE
  /\ todo = <<>>
  /\ held = {}
  /\ sres = "none"
  /\ counter = 0
  /\ rfpc = "test"
  /\ rfIter = NoIter
  /\ rfCur = ""
  /\ rfSent = <<>>
  /\ rfPasses = 0
  /\ rfAge = 0

\* What the refresh thread leaves alone.
refreshFrame == <<envVars, ctlVars, connVars, recvVars, cmdVars, sendVars,
                  lExists, callbacks, run, thr, pending, queue, wpc, wop,
                  wfs, wff, status, okStarted, wcall, wres, notes,
                  startCmds, seen, bindVars, clientVars, loopVars,
                  localVars>>

\* Half a second passes: the registration is half a second older; an age
\* beyond the lease is not told from the lease.
Older(age) == IF age < LeaseTicks THEN age + 1 ELSE age

\* `while self.__refresh_listeners.is_set():` and `if counter >= ...`: the
\* loop is left, or a pass begins with a new iterator over the values of
\* the registry, or the counter grows by check_for_refresh.
refresh_test ==
  /\ rfpc = "test"
  /\ IF ~refreshFlag
     THEN /\ rfpc' = "ended"
          /\ UNCHANGED <<counter, rfIter, rfSent, rfPasses>>
     ELSE IF RefreshDue(counter)
     THEN /\ rfPasses < MaxPasses
          /\ rfpc' = "iter"
          /\ rfIter' = [pos |-> 0, used |-> Len(ListenersValues)]
          /\ rfSent' = <<>>
          /\ rfPasses' = rfPasses + 1
          /\ UNCHANGED counter
     ELSE /\ counter' = counter + 1
          /\ rfpc' = "sleep"
          /\ UNCHANGED <<rfIter, rfSent, rfPasses>>
  /\ UNCHANGED <<rfCur, rfAge, refreshFrame>>

\* `for listener in self.__listeners.values():` asks for the next value:
\* a dict iterator raises RuntimeError if the size of the dict is not what
\* it was when the iteration began, which ends the thread; after the last
\* value the counter is reset and grows by check_for_refresh.
refresh_next ==
  /\ rfpc = "iter"
  /\ IF Len(ListenersValues) # rfIter.used
     THEN /\ rfpc' = "died"
          /\ rfIter' = NoIter
          /\ UNCHANGED <<counter, rfCur>>
     ELSE IF rfIter.pos = rfIter.used
     THEN /\ rfpc' = "sleep"
          /\ rfIter' = NoIter
          /\ counter' = 1
          /\ rfCur' = ""
     ELSE /\ rfpc' = "send"
          /\ rfCur' = ListenersValues[rfIter.pos + 1]
          /\ rfIter' = [rfIter EXCEPT !.pos = @ + 1]
          /\ UNCHANGED counter
  /\ UNCHANGED <<rfSent, rfPasses, rfAge, refreshFrame>>

\* self._send_command(commands.refresh_listener_registration(uid=...)):
\* the server renews the lease, or the command raises, which nothing in
\* the thread catches.
refresh_send ==
  /\ rfpc = "send"
  /\ \E ok \in BOOLEAN :
       /\ rfSent' = Append(rfSent, [key |-> rfCur, uid |-> reg[rfCur].uid,
                                    ok |-> ok])
       /\ rfpc' = IF ok THEN "iter" ELSE "died"
       /\ rfAge' = IF ok /\ rfCur = KeyOrder[1] THEN 0 ELSE rfAge
       /\ rfIter' = IF ok THEN rfIter ELSE NoIter
  /\ UNCHANGED <<counter, rfCur, rfPasses, refreshFrame>>

\* time.sleep(check_for_refresh)
refresh_sleep ==
  /\ rfpc = "sleep"
  /\ rfpc' = "test"
  /\ rfAge' = Older(rfAge)
  /\ UNCHANGED <<counter, rfIter, rfCur, rfSent, rfPasses, refreshFrame>>

\* Time goes on when the thread is gone.
time_passes ==
  /\ rfpc \in {"ended", "died"}
  /\ rfAge < LeaseTicks
  /\ rfAge' = Older(rfAge)
  /\ UNCHANGED <<counter, rfpc, rfIter, rfCur, rfSent, rfPasses,
                 refreshFrame>>

\* self.__refresh_listeners.clear() of __stop_listeners_registration_thread
clear_refresh_signal ==
  /\ refreshFlag
  /\ refreshFlag' = FALSE
  /\ UNCHANGED <<procHandle, procState, shutdownOnFinished, refreshThr, reg,
                 cmdLog, spc, force, todo, held, sres, srvTimeout, hostSet,
                 clientFrame>>

RefreshThread ==
  \/ refresh_test
  \/ refresh_next
  \/ refresh_send
  \/ refresh_sleep

NextRefresh ==
  \/ RefreshThread
  \/ time_passes
  \/ clear_refresh_signal
  \/ \E k \in Keys \ {KeyOrder[1]} : create_exec_listener(k)

SpecRefresh == InitRefresh /\ [][NextRefresh]_vars

\* The refresh thread takes the step that follows the test of the while
\* condition, the Event being set.
TestsWithSignalSet == rfpc = "test" /\ refreshFlag /\ rfpc' # "test"

\* The pass in progress ends with this step, the for loop being exhausted.
PassCompletes == rfpc = "iter" /\ rfpc' = "sleep"

\* The keys of the refresh commands of the pass, in the order sent.
SentKeys == [i \in 1..Len(rfSent) |-> rfSent[i].key]

C35_RefreshedBeforeLeaseElapses ==
  (refreshFlag /\ rfpc # "none") =>
    /\ rfpc \notin {"ended", "died"}
    /\ rfAge < LeaseTicks

\* The refresh thread is in a pass: the iterator of the for loop exists.
InPass == rfpc \in {"iter", "send"}

\* C36: the registry is not changed while the refresh thread iterates over
\* it: no listener is inserted or removed during a pass, so that a pass
\* iterates a registry of unchanged size; and no refresh command is sent
\* for a listener without a UID.
C36_RegistryUnchangedDuringPass ==
  [][ /\ InPass => \A k \in Keys : reg'[k].in = reg[k].in
      /\ \A i \in 1..Len(rfSent') : rfSent'[i].uid
    ]_vars

\* The accept loops that are alive on the role listener r: the calls whose
\* thread has not ended.
AliveLoops(r) == {n \in 1..MaxWaitCalls : thr[<<r, n>>].pc = "accept"}

\* C37: at most one accept loop is alive on a listener at any moment, and
\* none is alive on it when a call is about to run cleanup_notifications
\* and start_listening on it.
C37_AtMostOneAcceptLoop ==
  /\ \A r \in Roles : Cardinality(AliveLoops(r)) <= 1
  /\ wpc = "wire_s" => AliveLoops(StartedR) = {}
  /\ wpc = "wire_f" => AliveLoops(FinishedR) = {}

(***************************************************************************)
(* _start_local: the calling thread starts the main listener with the      *)
(* callback __port_on_listended, launches optiSLang, joins the listener    *)
(* thread and reads the port queue, while the listener thread runs         *)
(* __listen.  The listener is the one of the accept loop above, with the   *)
(* port callback as its only callback; the process connects to it once it  *)
(* runs.                                                                   *)
(***************************************************************************)
\* What __port_on_listended has put on port_queue: the port of the message
\* it was called with, which is told by the connection that carried it.
port_queue ==
  LET idx == {i \in 2..Len(lsLog) : lsLog[i].ev = "call"}
  IN  IF idx = {} THEN <<>>
      ELSE <<lsLog[(CHOOSE i \in idx : \A j \in idx : i <= j) - 1].c>>

\* The client in _start_local after add_callback: the listener is bound,
\* not started, and carries the port callback; no process exists;
\* ini_timeout is a number.
InitLocal ==
  /\ InitCommon
  /\ WaitIdle
  /\ BindIdle
  /\ RefreshIdle
  /\ srvTimeout = None
  /\ hostSet = FALSE
  /\ timeoutAlias \in {"yes", "no"}
  /\ procHandle = FALSE
  /\ procState = "none"
  /\ shutdownOnFinished \in BOOLEAN
  /\ refreshFlag = FALSE
  /\ refreshThr = "none"
  /\ reg = [k \in Keys |-> NoListener]
  /\ cmdLog = <<>>
  /\ spc = "idle"
  /\ force = FALSE
  /\ todo = <<>>
  /\ held = {}
  /\ sres = "none"
  /\ lsOpen = TRUE
  /\ lsRun = FALSE
  /\ lsRef = FALSE
  /\ lsPc = "none"
  /\ lsTimeout = None
  /\ lsExpired = FALSE
  /\ lsConns = <<>>
  /\ lsCur = NoConn
  /\ lsCbs = <<"terminate">>
  /\ lsLog = <<>>
  /\ kpc = "idle"
  /\ kCur = NoConn
  /\ slpc = "start_listening"
  /\ slPort = 0
  /\ slExc = "none"
  /\ slRes = "none"

\* What _start_local leaves alone.
localFrame == <<envVars, ctlVars, connVars, recvVars, cmdVars, sendVars,
                lExists, callbacks, run, thr, pending, queue, wpc, wop, wfs,
                wff, status, okStarted, wcall, wres, notes, startCmds, seen,
                bindVars, refreshVars, shutdownOnFinished, cmdLog, spc,
                force, todo, held, sres, lsExpired, lsCur, lsCbs, lsLog,
                kpc, kCur>>

\* listener.start_listening(timeout=ini_timeout)
local_start_listening ==
  /\ slpc = "start_listening"
  /\ lsRef' = TRUE
  /\ lsRun' = TRUE
  /\ lsPc' = "loop"
  /\ lsTimeout' = FloatT(MaxTimeout)
  /\ slpc' = "process"
  /\ UNCHANGED <<lsOpen, lsConns, procHandle, procState, refreshFlag,
                 refreshThr, reg, slPort, slExc, slRes, localFrame>>

\* self.__osl_process = OslServerProcess(...); self.__osl_process.start()
local_start_process ==
  /\ slpc = "process"
  /\ procHandle' = TRUE
  /\ procState' = "running"
  /\ slpc' = "is_listening"
  /\ UNCHANGED <<lsOpen, lsRun, lsRef, lsPc, lsTimeout, lsConns, refreshFlag,
                 refreshThr, reg, slPort, slExc, slRes, localFrame>>

\* The try block raises exc.
local_raise(raised) ==
  /\ slExc' = raised
  /\ slpc' = "except"

\* listener.join(), which reads self.__thread three times: in is_listening
\* `self.__thread is not None` and `self.__thread.is_alive()`, and then
\* `self.__thread.join()`.  join raises RuntimeError if the listener is not
\* listening; a call on None raises AttributeError.
local_join ==
  /\ \/ /\ slpc = "is_listening"
        /\ IF lsRef THEN slpc' = "is_alive" /\ UNCHANGED slExc
           ELSE local_raise("RuntimeError")
     \/ /\ slpc = "is_alive"
        /\ IF ~lsRef THEN local_raise("AttributeError")
           ELSE IF ThreadAlive THEN slpc' = "join" /\ UNCHANGED slExc
           ELSE local_raise("RuntimeError")
     \/ /\ slpc = "join"
        /\ IF ~lsRef THEN local_raise("AttributeError")
           ELSE slpc' = "joined" /\ UNCHANGED slExc
     \/ /\ slpc = "joined"
        /\ lsPc = "ended"
        /\ slpc' = "read"
        /\ UNCHANGED slExc
  /\ UNCHANGED <<lsOpen, lsRun, lsRef, lsPc, lsTimeout, lsConns, procHandle,
                 procState, refreshFlag, refreshThr, reg, slPort, slRes,
                 localFrame>>

\* if not port_queue.empty(): self.__port = port_queue.get()
local_read_port ==
  /\ slpc = "read"
  /\ slPort' = IF port_queue = <<>> THEN slPort ELSE Head(port_queue)
  /\ slpc' = "finally"
  /\ UNCHANGED <<lsOpen, lsRun, lsRef, lsPc, lsTimeout, lsConns, procHandle,
                 procState, refreshFlag, refreshThr, reg, slExc, slRes,
                 localFrame>>

\* except Exception: listener.dispose(); raise
local_except ==
  /\ slpc = "except"
  /\ lsOpen' = FALSE
  /\ lsConns' = <<>>
  /\ slpc' = "finally"
  /\ UNCHANGED <<lsRun, lsRef, lsPc, lsTimeout, procHandle, procState,
                 refreshFlag, refreshThr, reg, slPort, slExc, slRes,
                 localFrame>>

\* The finally clause, and what follows it when nothing is raised: without
\* a port the process is terminated and RuntimeError is raised, whatever
\* was being raised; with a port the listener is stored and the refresh
\* thread is started.
local_finally ==
  /\ slpc = "finally"
  /\ slpc' = "done"
  /\ IF slPort = 0
     THEN /\ procState' = "terminated"
          /\ procHandle' = FALSE
          /\ slRes' = "RuntimeError"
          /\ UNCHANGED <<reg, refreshFlag, refreshThr>>
     ELSE IF slExc # "none"
     THEN /\ slRes' = slExc
          /\ UNCHANGED <<procHandle, procState, reg, refreshFlag,
                         refreshThr>>
     ELSE /\ slRes' = "ok"
          /\ reg' = [reg EXCEPT ![KeyOrder[1]] =
                       Listener(srvTimeout, ListenerIsListening)]
          /\ refreshFlag' = TRUE
          /\ refreshThr' = "waiting"
          /\ UNCHANGED <<procHandle, procState>>
  /\ UNCHANGED <<lsOpen, lsRun, lsRef, lsPc, lsTimeout, lsConns, slPort,
                 slExc, localFrame>>

\* optiSLang, once it runs, reports its port to the listener.
process_connects(kind) ==
  /\ procHandle
  /\ procState = "running"
  /\ peer_connects(kind)

NextLocal ==
  \/ local_start_listening
  \/ local_start_process
  \/ local_join
  \/ local_read_port
  \/ local_except
  \/ local_finally
  \/ \E kind \in ConnKinds : process_connects(kind)
  \/ ListenThread

SpecLocal == InitLocal /\ [][NextLocal]_vars

\* C38: when the application is launched locally and the main listener
\* receives the notification with the port within the initial timeout,
\* _start_local succeeds with that port, however the listener thread and
\* the calling thread are interleaved; when it does not, the process is
\* terminated and RuntimeError is raised.
C38_PortReceivedMeansStarted ==
  slpc = "done" =>
    IF port_queue # <<>>
    THEN slRes = "ok" /\ slPort = Head(port_queue)
    ELSE slRes = "RuntimeError" /\ procState = "terminated"

\* The half of C38 that holds: without the notification the process is
\* terminated and RuntimeError is raised, and _start_local never succeeds
\* with a port other than the one received.
C38_NoPortMeansRuntimeError ==
  slpc = "done" =>
    /\ port_queue = <<>> =>
         slRes = "RuntimeError" /\ procState = "terminated"
    /\ slRes = "ok" => port_queue # <<>> /\ slPort = Head(port_queue)
    /\ slRes # "ok" => slRes = "RuntimeError" /\ procState = "terminated"

\* The callback puts an item on the queue of the call for the listener r.
PutsOn(r) == Len(queue'[<<wcall, r>>]) > Len(queue[<<wcall, r>>])

\* C39: what the one-shot callback puts on the queue is a success flag,
\* true for a matching notification and false for a failure notification,
\* and it is put at most once per wait; when the started wait of start
\* ends with the flag of a failure, start does not go on to wait on the
\* finished queue.
C39_HandoffIsSuccessFlag ==
  [][ /\ \A r \in Roles :
           wcall > 0 =>
             /\ Len(queue'[<<wcall, r>>]) <= 1
             /\ PutsOn(r) =>
                  (Truthy(queue'[<<wcall, r>>][1])
                     <=> seen'[r] \in Targets(r))
      /\ (wpc = "wait_s" /\ wpc' # "wait_s"
            /\ seen[StartedR] \notin Targets(StartedR)) => wpc' # "wait_f"
    ]_vars

(***************************************************************************)
(* stop and stop_gently on their own, with every project state.            *)
(***************************************************************************)
\* stop or stop_gently is called.
stop_call == start_call /\ wop' # "start"

NextStop ==
  \/ stop_call
  \/ project_status(ProjectStatuses)
  \/ create_listener(FinishedR)
  \/ wire_listener(FinishedR)
  \/ send_trigger
  \/ wait_for_finished
  \/ call_return
  \/ \E n \in 1..MaxWaitCalls : listen_accept(FinishedR, n)
  \/ \E n \in 1..MaxWaitCalls : listen_timeout(FinishedR, n)
  \/ \E ty \in Registered(FinishedR) : notify(FinishedR, ty)

SpecStop == InitWait /\ [][NextStop]_vars

\* C40: stop and stop_gently query the project status first; with the
\* status IDLE, FINISHED, STOP_REQUESTED, STOPPED, ABORT_REQUESTED or
\* ABORTED they send no stop command, create and start no listener and
\* return without waiting; with any other status they send the stop
\* command exactly once and, if wait_for_finished is set, return only
\* after the finished wait was resolved.
C40_StopDependsOnStatus ==
  [][ /\ (wpc = "idle" /\ wpc' # "idle") => wpc' = "status" /\ startCmds' = 0
      /\ (wpc = "status" /\ wpc' \notin {"idle", "status"}) =>
           IF status' \in {"IDLE", "FINISHED", "STOP_REQUESTED", "STOPPED",
                           "ABORT_REQUESTED", "ABORTED"}
           THEN wpc' = "return"
           ELSE wpc' \in {"create_f", "wire_f", "command"}
      /\ (wpc \notin {"idle", "status", "return"} /\ wpc' = "return") =>
           /\ startCmds' = 1
           /\ wff => /\ wpc = "wait_f"
                     /\ queue[<<wcall, FinishedR>>] # <<>>
                     /\ thr[<<FinishedR, wcall>>].pc # "none"
           /\ ~wff => wpc = "command"
      /\ (wpc = "return" /\ startCmds = 0) =>
           thr[<<FinishedR, wcall>>].pc = "none"
      /\ (wpc = "return" /\ wpc' = "idle") => wres' = "returned"
      /\ startCmds' <= 1
      /\ (wpc = "wait_f" /\ wpc' # "wait_f") => wpc' = "return"
    ]_vars

\* stop(wait_for_finished=True) on a project that is not stopped has sent
\* its command once and returns after the finished notification.
C40_Witness_StopWaited ==
  /\ wop \in {"stop", "stop_gently"}
  /\ wff
  /\ wpc = "return"
  /\ status = "PAUSED"
  /\ startCmds = 1
  /\ seen[FinishedR] = "EXECUTION_FINISHED"

\* stop_gently on a project in STOP_REQUESTED returns without a command.
C40_Witness_NothingToStop ==
  /\ wop = "stop_gently"
  /\ wff
  /\ wpc = "return"
  /\ status = "STOP_REQUESTED"
  /\ startCmds = 0

=============================================================================
